---- MODULE Spec2Model ----
(***************************************************************************)
(* Model of the load-test runner: the StatsManager counters, the           *)
(* WebSocket / HTTP connection objects with their retry timers, the        *)
(* managers that create and shut down the connections, the Redis test-data *)
(* feed, the URL template resolver and the process signal handling.        *)
(***************************************************************************)
EXTENDS Integers, Sequences, FiniteSets, TLC

(* ------------------------------ bounds -------------------------------- *)
\* API-level statistics runs: at most this many calls of each event.
MaxEvents == 3
\* Latency samples (ms) a connection attempt may observe are 1..MaxLatency.
MaxLatency == 2
\* Resolver runs: templates are built from at most this many segments.
MaxSegments == 3
\* Connection runs: connect times (ms) are 1..MaxConnectTime.
MaxConnectTime == 1
\* Connection runs: retry timers fire while fewer attempts than this were made.
MaxAttempts == 3
\* Single-connection runs: the owner calls close() at most this many times;
\* StatsManager runs: close() is called at most this many times.
MaxCloseCalls == 2
\* Runner runs: the file loaded into Redis has this many rows.
MaxRows == 2
\* Runner runs: NUM_CONNECTIONS.
MaxStatic == 2
\* Runner runs: REPLICAS.
RunReplicas == 2
\* Runner runs: at most this many interval callbacks wait for a pop at once.
MaxPendingPops == 2
\* Runner runs: at most this many termination signals arrive.
MaxSignals == 2
\* Sizing runs: files of up to this many rows, up to this many replicas.
MaxCount == 4
MaxReplicas == 3
\* Loader runs: CSV files of up to this many rows, DATA_LEVEL up to this.
MaxFileRows == 2
MaxDataLevel == 2

(* ------------------------- program constants -------------------------- *)
\* stats.ts: the connectTimes window is cut back to its last 1000 samples.
WindowCap == 1000
\* createInstantConnections: a 100 ms pause after every 100 connections.
PauseEvery == 100

\* An optional value (a string, a row) is None (null / undefined) or Some(x).
None == <<>>
Some(x) == <<x>>
Value(opt) == opt[1]

VARIABLES
  statsManager,   \* the StatsManager singleton: counters, window, timer
  apiCall,        \* API-level runs: the last StatsManager event called
  tplIn,          \* resolver runs: the URL template given
  rowIn,          \* resolver runs: the test-data row given (or None)
  urlOut,         \* resolver runs: the resolved URL (None before the call)
  config,         \* the parsed environment (config.ts), fixed for a run
  connections,    \* the manager's connections array, in creation order
  owner,          \* single-connection runs: what the owner's close() calls saw
  proc,           \* the process: signals received, handlers, exit
  redis,          \* the Redis server: count key, list, rows other replicas took
  redisClient,    \* the RedisClient singleton: dataCount, calls under way
  manager,        \* the two manager singletons and where their shutdown() is
  init,           \* where initialize() of the manager in use is
  env,            \* configuration runs: process.env as parseEnv() finds it
  startup,        \* configuration runs: how the import of config.ts ended
  loader          \* loader runs: the CSV file, DATA_LEVEL, where loadCsvFile() is

statVars == <<statsManager, apiCall>>
tplVars  == <<tplIn, rowIn, urlOut>>
mgrVars  == <<redis, redisClient, manager, init>>
toolVars == <<env, startup, loader>>
vars == <<statsManager, apiCall, tplIn, rowIn, urlOut, config, connections,
          owner, proc, redis, redisClient, manager, init, env, startup,
          loader>>

(* ====================================================================== *)
(* StatsManager (stats.ts)                                                 *)
(* ====================================================================== *)

\* A rate or an average is kept as the exact fraction <<num, den>>; a
\* success rate <<n, d>> stands for the number n / d * 100.
ZeroFraction == <<0, 1>>

\* s[lo] + ... + s[hi], summed by halves so that a window of WindowCap
\* samples needs a shallow recursion only.
RECURSIVE SumRange(_, _, _)
SumRange(s, lo, hi) ==
  IF lo > hi THEN 0
  ELSE IF lo = hi THEN s[lo]
  ELSE LET mid == (lo + hi) \div 2
       IN SumRange(s, lo, mid) + SumRange(s, mid + 1, hi)

\* connectTimes.reduce((acc, time) => acc + time, 0)
SumSeq(s) == SumRange(s, 1, Len(s))

\* Mutant of SliceLast: the first n samples are kept, the newest dropped.
SliceFirst(s, n) == IF Len(s) <= n THEN s ELSE SubSeq(s, 1, n)

\* connectTimes.slice(-n)
SliceLast(s, n) ==
  IF Len(s) <= n THEN s ELSE SubSeq(s, Len(s) - n + 1, Len(s))

\* The StatsManager constructor for a given config.testMode.
NewStatsManager(mode) ==
  [ isHttpMode |-> (mode = "http"),
    wsStats |-> [ totalAttempted |-> 0, currentOpen |-> 0, totalClosed |-> 0,
                  totalErrors |-> 0, averageConnectTime |-> ZeroFraction,
                  successRate |-> ZeroFraction ],
    httpStats |-> [ totalAttempted |-> 0, totalSuccessful |-> 0,
                    totalErrors |-> 0, averageResponseTime |-> ZeroFraction,
                    successRate |-> ZeroFraction ],
    connectTimes |-> <<>>,
    closePoints |-> 0,
    updateInterval |-> TRUE,
    summaries |-> 0, closeCalls |-> 0, finalFlushes |-> 0,
    flushFailures |-> 0, sinkCloses |-> 0,
    sinkUp |-> TRUE, lastUpdateFailed |-> FALSE ]

\* Mutant of updateStats: a failed flush throws the derived rates away.
updateStatsResetsRates(sm) ==
  IF sm.sinkUp
    THEN [sm EXCEPT !.lastUpdateFailed = FALSE]
    ELSE [sm EXCEPT !.lastUpdateFailed = TRUE,
                    !.wsStats.successRate = ZeroFraction,
                    !.httpStats.successRate = ZeroFraction]

\* updateStats(): the summary point is written and flushed inside a try; a
\* rejected flush (the sink is down) is caught and logged, nothing else
\* changes.  lastUpdateFailed remembers which branch the last call took.
updateStats(sm) ==
  IF sm.sinkUp
    THEN [sm EXCEPT !.lastUpdateFailed = FALSE]
    ELSE [sm EXCEPT !.lastUpdateFailed = TRUE]

updateWsSuccessRate(sm) ==
  IF sm.wsStats.totalAttempted = 0 THEN sm
  ELSE [sm EXCEPT !.wsStats.successRate =
          << sm.wsStats.currentOpen + sm.wsStats.totalClosed,
             sm.wsStats.totalAttempted >>]

updateHttpSuccessRate(sm) ==
  IF sm.httpStats.totalAttempted = 0 THEN sm
  ELSE [sm EXCEPT !.httpStats.successRate =
          << sm.httpStats.totalSuccessful, sm.httpStats.totalAttempted >>]

updateAverageConnectTime(sm) ==
  IF Len(sm.connectTimes) = 0 THEN sm
  ELSE [sm EXCEPT
          !.wsStats.averageConnectTime =
              << SumSeq(sm.connectTimes), Len(sm.connectTimes) >>,
          !.connectTimes = SliceLast(@, WindowCap)]

updateAverageResponseTime(sm) ==
  IF Len(sm.connectTimes) = 0 THEN sm
  ELSE [sm EXCEPT
          !.httpStats.averageResponseTime =
              << SumSeq(sm.connectTimes), Len(sm.connectTimes) >>,
          !.connectTimes = SliceLast(@, WindowCap)]

connectionAttempted(sm) ==
  updateStats(
    IF sm.isHttpMode
      THEN [sm EXCEPT !.httpStats.totalAttempted = @ + 1]
      ELSE [sm EXCEPT !.wsStats.totalAttempted = @ + 1])

connectionOpened(sm, connectTime) ==
  updateStats(
    IF sm.isHttpMode
      THEN updateHttpSuccessRate(updateAverageResponseTime(
             [sm EXCEPT !.httpStats.totalSuccessful = @ + 1,
                        !.connectTimes = Append(@, connectTime)]))
      ELSE updateWsSuccessRate(updateAverageConnectTime(
             [sm EXCEPT !.wsStats.currentOpen = @ + 1,
                        !.connectTimes = Append(@, connectTime)])))

\* Mutant of DecrementCurrentOpen: a close leaves currentOpen as it is.
KeepCurrentOpen(currentOpen) == currentOpen

\* Mutant of DecrementCurrentOpen: the decrement without the zero guard.
DecrementCurrentOpenUnguarded(currentOpen) == currentOpen - 1

\* connectionClosed's guarded decrement of wsStats.currentOpen.
DecrementCurrentOpen(currentOpen) ==
  IF currentOpen > 0 THEN currentOpen - 1 ELSE currentOpen

\* In HTTP mode no counter changes; in both modes a point with event_type
\* 'close' is written (closePoints counts them).
connectionClosed(sm) ==
  LET sm1 == IF sm.isHttpMode
               THEN sm
               ELSE updateWsSuccessRate(
                      [sm EXCEPT !.wsStats.currentOpen = DecrementCurrentOpen(@),
                                 !.wsStats.totalClosed = @ + 1])
  IN updateStats([sm1 EXCEPT !.closePoints = @ + 1])

\* Mutant of connectionError: the failure is taken off the successes.
connectionErrorUncounts(sm) ==
  updateStats(
    IF sm.isHttpMode
      THEN updateHttpSuccessRate(
             [sm EXCEPT !.httpStats.totalErrors = @ + 1,
                        !.httpStats.totalSuccessful = IF @ > 0 THEN @ - 1 ELSE @])
      ELSE updateWsSuccessRate(
             [sm EXCEPT !.wsStats.totalErrors = @ + 1,
                        !.wsStats.totalClosed = IF @ > 0 THEN @ - 1 ELSE @]))

connectionError(sm) ==
  updateStats(
    IF sm.isHttpMode
      THEN updateHttpSuccessRate([sm EXCEPT !.httpStats.totalErrors = @ + 1])
      ELSE updateWsSuccessRate([sm EXCEPT !.wsStats.totalErrors = @ + 1]))

\* The callback of startPeriodicUpdate's setInterval: updateStats() writes
\* a summary point (summaries counts the periodic ones).
periodicUpdate(sm) == updateStats([sm EXCEPT !.summaries = @ + 1])

\* Mutant of closeBegins: the interval is left running.
closeBeginsKeepsInterval(sm) == [sm EXCEPT !.closeCalls = @ + 1]

\* close() up to its first await: clearInterval(this.updateInterval), and
\* writeApi.flush() is called.
closeBegins(sm) ==
  [sm EXCEPT !.updateInterval = FALSE, !.closeCalls = @ + 1]

\* close(): the flush of a call is through, writeApi.close() is called.
closeFlushed(sm) == [sm EXCEPT !.finalFlushes = @ + 1]

\* close(): the flush of a call is rejected; the catch logs the error and
\* close() returns with writeApi.close() not called.
closeFlushFailed(sm) == [sm EXCEPT !.flushFailures = @ + 1]

\* close(): writeApi.close() of a call is through, close() returns.
closeReleased(sm) == [sm EXCEPT !.sinkCloses = @ + 1]

(* ====================================================================== *)
(* Configuration (config.ts) and the parts of the state a run may not use  *)
(* ====================================================================== *)
Prefix   == <<"w","s",":","/","/","h","/","w","s","?","i","d","=">>
TokId    == <<"@","{","i","d","}">>
TokLevel == <<"@","{","l","e","v","e","l","}">>
KeyId    == <<"i","d">>
KeyLevel == <<"l","e","v","e","l">>

\* The target URL template of a run: WS_URL or HTTP_URL.
TargetUrl(cfg) == IF cfg.testMode = "http" THEN cfg.httpUrl ELSE cfg.wsUrl

DefaultConfig(mode) ==
  [ testMode |-> mode, connectionMode |-> "instant", numConnections |-> 1,
    replicas |-> 1, wsUrl |-> Prefix \o TokId, httpUrl |-> Prefix \o TokId,
    httpMethod |-> "GET" ]

Managers == {"ws", "http"}
Digits == <<"0", "1", "2", "3", "4", "5", "6", "7", "8", "9">>
DigitValue(ch) == (CHOOSE d \in 1..10 : Digits[d] = ch) - 1

\* parseInt(str, 10) of a string of decimal digits.
RECURSIVE ParseInt(_)
ParseInt(str) ==
  IF str = <<>> THEN 0
  ELSE 10 * ParseInt(SubSeq(str, 1, Len(str) - 1)) + DigitValue(str[Len(str)])

\* n.toString() of a number below 100.
NumberToString(n) ==
  IF n < 10 THEN <<Digits[n + 1]>>
  ELSE <<Digits[(n \div 10) + 1], Digits[(n % 10) + 1]>>

\* Row number n of the CSV file, as the loader stores it.
DataRow(n) ==
  [k \in {KeyLevel, KeyId} |-> IF k = KeyId THEN NumberToString(n) ELSE <<"1">>]

\* What the loader leaves in Redis for a file of n rows: the list of the
\* rows and the count key; nothing when no file was loaded.
Loaded(n) ==
  [ up |-> TRUE,
    count |-> IF n = 0 THEN None ELSE Some(NumberToString(n)),
    list |-> [r \in 1..n |-> DataRow(r)],
    taken |-> <<>> ]

NewRedisClient == [dataCount |-> 0, pending |-> <<>>, closed |-> FALSE]

NewManager ==
  [ isShuttingDown |-> FALSE, progressiveConnectionTimer |-> FALSE,
    hasTestData |-> FALSE, calculatedNumConnections |-> 0,
    pc |-> "idle", closeRuns |-> 0, statsCloses |-> 0, redisCloses |-> 0 ]

NoManagers ==
  /\ redis = Loaded(0)
  /\ redisClient = NewRedisClient
  /\ manager = [m \in Managers |-> NewManager]
  /\ init = [pc |-> "none", i |-> 0, createdCount |-> 0]

\* No variable of process.env is set; no file is given to the loader.
NoEnv == [name \in {} |-> None]
NoLoader == [file |-> <<>>, dataLevel |-> 0, rows |-> <<>>, pc |-> "none"]
NoTools == env = NoEnv /\ startup = "none" /\ loader = NoLoader

NoResolverRun == tplIn = <<>> /\ rowIn = None /\ urlOut = None
NoOwner == owner = [closeCalls |-> 0, socketAtClose |-> "none",
                    closedAfterClose |-> 0]
NoProcess == proc = [signals |-> 0, handlersRegistered |-> FALSE,
                     exited |-> FALSE, exitWaits |-> FALSE]
NoConnections == connections = <<>> /\ NoOwner /\ NoProcess /\ NoManagers

(* ------------------- parseEnv() of the runner ------------------------- *)
\* process.env gives each variable as None (unset) or Some(string); URLs and
\* numbers are sequences of characters, TEST_MODE is a word.
Falsy(opt, empty) == opt = None \/ Value(opt) = empty

\* process.env.X || fallback
OrElse(opt, empty, fallback) == IF Falsy(opt, empty) THEN fallback ELSE Value(opt)

\* The parsed fields of a parseEnv() run on e, before validation.
ParsedEnv(e) ==
  [ testMode       |-> OrElse(e.TEST_MODE, "", "websocket"),
    connectionMode |-> "instant",
    numConnections |-> ParseInt(OrElse(e.NUM_CONNECTIONS, <<>>, <<"1","0","0">>)),
    replicas       |-> 3,
    wsUrl          |-> OrElse(e.WS_URL, <<>>, <<>>),
    httpUrl        |-> OrElse(e.HTTP_URL, <<>>, <<>>),
    httpMethod     |-> "GET" ]

\* How parseEnv() ends on e: "ok" when it returns the Config, else the
\* variable named by the Error it throws (the checks in source order).
parseEnv(e) ==
  LET c == ParsedEnv(e) IN
  IF Falsy(e.WS_URL, <<>>) THEN "WS_URL"
  ELSE IF Falsy(e.INFLUX_URL, <<>>) THEN "INFLUX_URL"
  ELSE IF Falsy(e.INFLUX_TOKEN, <<>>) THEN "INFLUX_TOKEN"
  ELSE IF Falsy(e.INFLUX_ORG, <<>>) THEN "INFLUX_ORG"
  ELSE IF Falsy(e.INFLUX_BUCKET, <<>>) THEN "INFLUX_BUCKET"
  ELSE IF Falsy(e.REDIS_URL, <<>>) THEN "REDIS_URL"
  ELSE IF c.numConnections <= 0 THEN "NUM_CONNECTIONS"
  ELSE IF c.testMode \notin {"websocket", "http"} THEN "TEST_MODE"
  ELSE IF c.testMode = "http" /\ c.httpUrl = <<>> THEN "HTTP_URL"
  ELSE "ok"

\* The environments tried: every required variable set or unset, the URLs
\* also empty, TEST_MODE unset, empty, valid or unknown, NUM_CONNECTIONS
\* unset, 0 or 2; the other optional variables are left to their defaults.
SomeValue == <<"x">>
Environments ==
  [ WS_URL          : {None, Some(<<>>), Some(Prefix \o TokId)},
    HTTP_URL        : {None, Some(<<>>), Some(Prefix \o TokId)},
    TEST_MODE       : {None, Some(""), Some("websocket"), Some("http"),
                       Some("grpc")},
    NUM_CONNECTIONS : {None, Some(<<"0">>), Some(<<"2">>)},
    INFLUX_URL      : {None, Some(SomeValue)},
    INFLUX_TOKEN    : {None, Some(SomeValue)},
    INFLUX_ORG      : {None, Some(SomeValue)},
    INFLUX_BUCKET   : {None, Some(SomeValue)},
    REDIS_URL       : {None, Some(SomeValue)} ]

InitEnv ==
  /\ env \in Environments
  /\ startup = "none"
  /\ loader = NoLoader
  /\ statsManager = NewStatsManager("websocket")
  /\ config = DefaultConfig("websocket")
  /\ apiCall = "none"
  /\ NoResolverRun /\ NoConnections

\* The import of config.ts: `export const config = parseEnv()`.
ImportConfig ==
  /\ startup = "none"
  /\ startup' = parseEnv(env)
  /\ config' = IF parseEnv(env) = "ok" THEN ParsedEnv(env) ELSE config
  /\ UNCHANGED <<statVars, tplVars, env, loader, connections, owner, proc,
                 mgrVars>>

NextEnv == ImportConfig

SpecEnv == InitEnv /\ [][NextEnv]_vars

(* --------------------- the data loader (data-loader.ts) ---------------- *)
\* parseInt(str, 10) of any string of the characters used here: an optional
\* minus sign and the longest run of digits that follows; None (NaN) when
\* there is no digit.
IsDigit(ch) == \E d \in 1..10 : Digits[d] = ch

RECURSIVE DigitPrefix(_)
DigitPrefix(str) ==
  IF str = <<>> \/ ~IsDigit(Head(str)) THEN <<>>
  ELSE <<Head(str)>> \o DigitPrefix(Tail(str))

ParseIntJs(str) ==
  LET neg  == str # <<>> /\ Head(str) = "-"
      body == DigitPrefix(IF neg THEN Tail(str) ELSE str)
  IN IF body = <<>> THEN None
     ELSE Some(IF neg THEN 0 - ParseInt(body) ELSE ParseInt(body))

\* Mutant of KeepsRow: rows at DATA_LEVEL itself are left out.
KeepsRowBelow(row, dataLevel) ==
  LET rowLevel == ParseIntJs(row[KeyLevel])
  IN rowLevel # None /\ Value(rowLevel) < dataLevel

\* The 'data' handler's filter: !isNaN(rowLevel) && rowLevel <= dataLevel
KeepsRow(row, dataLevel) ==
  LET rowLevel == ParseIntJs(row[KeyLevel])
  IN rowLevel # None /\ Value(rowLevel) <= dataLevel

\* rows.push(row) for every row of the file that passes the filter.
RECURSIVE FilterRows(_, _)
FilterRows(file, dataLevel) ==
  IF file = <<>> THEN <<>>
  ELSE (IF KeepsRow(Head(file), dataLevel) THEN <<Head(file)>> ELSE <<>>)
         \o FilterRows(Tail(file), dataLevel)

\* The level column of the rows of the files tried.
Levels == { <<"1">>, <<"2">>, <<"3">>, <<"2","x">>, <<"x">>, <<>>, <<"-","1">> }

\* Row number n of a file, with the given level column.
FileRow(n, level) ==
  [k \in {KeyLevel, KeyId} |-> IF k = KeyId THEN NumberToString(n) ELSE level]

\* The files of n rows.
Files(n) == { [k \in 1..n |-> FileRow(k, lv[k])] : lv \in [1..n -> Levels] }

\* A loader run: Redis up or down, empty or holding an older file of MaxRows
\* rows, a CSV file of up to MaxFileRows rows, DATA_LEVEL 0..MaxDataLevel.
InitLoader ==
  /\ \E n \in 0..MaxFileRows, dataLevel \in 0..MaxDataLevel :
       \E file \in Files(n) :
         loader = [file |-> file, dataLevel |-> dataLevel, rows |-> <<>>,
                   pc |-> "parse"]
  /\ \E up \in BOOLEAN, old \in {0, MaxRows} :
       redis = [Loaded(old) EXCEPT !.up = up]
  /\ redisClient = NewRedisClient
  /\ manager = [m \in Managers |-> NewManager]
  /\ init = [pc |-> "none", i |-> 0, createdCount |-> 0]
  /\ connections = <<>>
  /\ statsManager = NewStatsManager("websocket")
  /\ config = DefaultConfig("websocket")
  /\ apiCall = "none"
  /\ env = NoEnv /\ startup = "none"
  /\ NoResolverRun /\ NoOwner /\ NoProcess

LoaderStep(ld, rd) ==
  /\ loader' = ld
  /\ redis' = rd
  /\ UNCHANGED <<statVars, tplVars, env, startup, config, connections, owner,
                 proc, redisClient, manager, init>>

\* loadCsvFile(): the file is read to its end, the rows filtered.
LoaderParsed ==
  /\ loader.pc = "parse"
  /\ LoaderStep([loader EXCEPT
                   !.rows = FilterRows(loader.file, loader.dataLevel),
                   !.pc = "del"], redis)

\* storeDataInRedis(): the reply to DEL of the list.  A rejected command
\* makes storeDataInRedis(), and loadCsvFile(), throw.
LoaderDelReply ==
  /\ loader.pc = "del"
  /\ IF ~redis.up
       THEN LoaderStep([loader EXCEPT !.pc = "failed"], redis)
       ELSE LoaderStep([loader EXCEPT
                          !.pc = IF Len(loader.rows) = 0 THEN "count"
                                                         ELSE "push"],
                       [redis EXCEPT !.list = <<>>])

\* storeDataInRedis(): the reply to the pipeline of RPUSH commands.
LoaderPushReply ==
  /\ loader.pc = "push"
  /\ LoaderStep([loader EXCEPT !.pc = "count"],
                [redis EXCEPT !.list = @ \o loader.rows])

\* storeDataInRedis(): the reply to SET of the count key; loadCsvFile()
\* returns.
LoaderCountReply ==
  /\ loader.pc = "count"
  /\ LoaderStep([loader EXCEPT !.pc = "done"],
                [redis EXCEPT
                   !.count = Some(NumberToString(Len(loader.rows)))])

NextLoader ==
  \/ LoaderParsed
  \/ LoaderDelReply
  \/ LoaderPushReply
  \/ LoaderCountReply

SpecLoader == InitLoader /\ [][NextLoader]_vars

(* ---------------- API-level runs of the StatsManager ------------------ *)
\* Any caller, any order: the four event methods called directly.

InitStats ==
  /\ \E mode \in {"websocket", "http"} :
       /\ statsManager = NewStatsManager(mode)
       /\ config = DefaultConfig(mode)
  /\ apiCall = "none"
  /\ NoResolverRun /\ NoTools /\ NoConnections

Attempted(sm) ==
  IF sm.isHttpMode THEN sm.httpStats.totalAttempted
                   ELSE sm.wsStats.totalAttempted
Errors(sm) ==
  IF sm.isHttpMode THEN sm.httpStats.totalErrors ELSE sm.wsStats.totalErrors

ApiAttempted ==
  /\ Attempted(statsManager) < MaxEvents
  /\ statsManager' = connectionAttempted(statsManager)
  /\ apiCall' = "attempted"
  /\ UNCHANGED <<tplVars, toolVars, config, connections, owner, proc, mgrVars>>

ApiOpened ==
  /\ Len(statsManager.connectTimes) < MaxEvents
  /\ \E t \in 1..MaxLatency :
       statsManager' = connectionOpened(statsManager, t)
  /\ apiCall' = "opened"
  /\ UNCHANGED <<tplVars, toolVars, config, connections, owner, proc, mgrVars>>

ApiClosed ==
  /\ statsManager.closePoints < MaxEvents
  /\ statsManager' = connectionClosed(statsManager)
  /\ apiCall' = "closed"
  /\ UNCHANGED <<tplVars, toolVars, config, connections, owner, proc, mgrVars>>

ApiErrored ==
  /\ Errors(statsManager) < MaxEvents
  /\ statsManager' = connectionError(statsManager)
  /\ apiCall' = "errored"
  /\ UNCHANGED <<tplVars, toolVars, config, connections, owner, proc, mgrVars>>

NextStats == ApiAttempted \/ ApiOpened \/ ApiClosed \/ ApiErrored

SpecStats == InitStats /\ [][NextStats]_vars

(* -------------- the StatsManager's timer and its close() --------------- *)
\* The periodic update fires while its interval is set.
PeriodicUpdate ==
  /\ statsManager.updateInterval
  /\ statsManager.summaries < MaxEvents
  /\ statsManager' = periodicUpdate(statsManager)
  /\ apiCall' = "periodic"
  /\ UNCHANGED <<tplVars, toolVars, config, connections, owner, proc, mgrVars>>

\* close() is called: by the shutdown() of either manager.
StatsCloseCall ==
  /\ statsManager.closeCalls < MaxCloseCalls
  /\ statsManager' = closeBegins(statsManager)
  /\ apiCall' = "close"
  /\ UNCHANGED <<tplVars, toolVars, config, connections, owner, proc, mgrVars>>

\* The flush of a close() call is through, or is rejected.
StatsFlushReply ==
  /\ statsManager.finalFlushes + statsManager.flushFailures
       < statsManager.closeCalls
  /\ \E ok \in BOOLEAN :
       /\ statsManager' = IF ok THEN closeFlushed(statsManager)
                                ELSE closeFlushFailed(statsManager)
       /\ apiCall' = IF ok THEN "flushed" ELSE "flush failed"
  /\ UNCHANGED <<tplVars, toolVars, config, connections, owner, proc, mgrVars>>

\* writeApi.close() of a close() call is through.
StatsSinkReply ==
  /\ statsManager.sinkCloses < statsManager.finalFlushes
  /\ statsManager' = closeReleased(statsManager)
  /\ apiCall' = "released"
  /\ UNCHANGED <<tplVars, toolVars, config, connections, owner, proc, mgrVars>>

NextStatsClose ==
  \/ ApiAttempted
  \/ ApiErrored
  \/ PeriodicUpdate
  \/ StatsCloseCall
  \/ StatsFlushReply
  \/ StatsSinkReply

SpecStatsClose == InitStats /\ [][NextStatsClose]_vars

(* -------------- the StatsManager late in a long run -------------------- *)
\* The window after n opened events of which the first took `first` ms and
\* the others `rest` ms (n <= WindowCap: nothing has been cut yet).
FilledWindow(n, first, rest) == [k \in 1..n |-> IF k = 1 THEN first ELSE rest]

Opened(sm) ==
  IF sm.isHttpMode THEN sm.httpStats.totalSuccessful
                   ELSE sm.wsStats.currentOpen

\* The StatsManager after n + MaxEvents attempts the first n of which have
\* opened, with the latencies of FilledWindow(n, first, rest).
LateStatsManager(mode, n, first, rest) ==
  LET sm == NewStatsManager(mode)
      w == FilledWindow(n, first, rest)
      avg == << SumSeq(w), n >>
      rate == << n, n + MaxEvents >>
  IN [sm EXCEPT
        !.connectTimes = w,
        !.wsStats = IF sm.isHttpMode THEN @ ELSE
            [@ EXCEPT !.totalAttempted = n + MaxEvents, !.currentOpen = n,
                      !.averageConnectTime = avg, !.successRate = rate],
        !.httpStats = IF sm.isHttpMode THEN
            [@ EXCEPT !.totalAttempted = n + MaxEvents, !.totalSuccessful = n,
                      !.averageResponseTime = avg, !.successRate = rate]
            ELSE @]

InitWindow ==
  /\ \E mode \in {"websocket", "http"}, n \in {WindowCap - 1, WindowCap},
        first \in 1..MaxLatency, rest \in 1..MaxLatency :
       /\ statsManager = LateStatsManager(mode, n, first, rest)
       /\ config = DefaultConfig(mode)
  /\ apiCall = "none"
  /\ NoResolverRun /\ NoTools /\ NoConnections

\* One of the attempts under way opens.
LateOpened ==
  /\ Opened(statsManager) < Attempted(statsManager)
  /\ \E t \in 1..MaxLatency :
       statsManager' = connectionOpened(statsManager, t)
  /\ apiCall' = "opened"
  /\ UNCHANGED <<tplVars, toolVars, config, connections, owner, proc, mgrVars>>

NextWindow == LateOpened

SpecWindow == InitWindow /\ [][NextWindow]_vars

(* ====================================================================== *)
(* URL template resolution (WebSocketConnection / HttpConnection)          *)
(* ====================================================================== *)
\* A string is a sequence of one-character strings.  A test-data row is a
\* function from column names (strings) to values (strings); a testData
\* argument is None or Some(row).

\* Least j >= k with s[j] = "}", or 0.
RECURSIVE FirstClose(_, _)
FirstClose(s, k) ==
  IF k > Len(s) THEN 0
  ELSE IF s[k] = "}" THEN k ELSE FirstClose(s, k + 1)

\* /@{([^}]+)}/ anchored at i: the index of the closing brace, or 0.
MatchAt(s, i) ==
  IF /\ i + 2 <= Len(s)
     /\ s[i] = "@" /\ s[i + 1] = "{" /\ s[i + 2] # "}"
  THEN FirstClose(s, i + 3)
  ELSE 0

\* variableRegex.exec(urlTemplate) from lastIndex: <<start, end>> of the
\* leftmost match, or <<0, 0>>.
RECURSIVE RegexExec(_, _)
RegexExec(s, lastIndex) ==
  IF lastIndex > Len(s) THEN <<0, 0>>
  ELSE IF MatchAt(s, lastIndex) # 0 THEN <<lastIndex, MatchAt(s, lastIndex)>>
  ELSE RegexExec(s, lastIndex + 1)

\* str.indexOf(pat) + 1, or 0.
RECURSIVE IndexOf(_, _, _)
IndexOf(str, pat, k) ==
  IF k + Len(pat) - 1 > Len(str) THEN 0
  ELSE IF SubSeq(str, k, k + Len(pat) - 1) = pat THEN k
  ELSE IndexOf(str, pat, k + 1)

\* The replacement text of String.prototype.replace with a string pattern:
\* $$ is a dollar sign, $& the matched text, $` and $' the text before and
\* after the match; any other character stands for itself.
RECURSIVE GetSubstitution(_, _, _, _)
GetSubstitution(repl, matched, before, after) ==
  IF repl = <<>> THEN <<>>
  ELSE IF Head(repl) = "$" /\ Len(repl) >= 2 /\ repl[2] \in {"$", "&", "`", "'"}
    THEN (CASE repl[2] = "$" -> <<"$">>
            [] repl[2] = "&" -> matched
            [] repl[2] = "`" -> before
            [] repl[2] = "'" -> after)
         \o GetSubstitution(SubSeq(repl, 3, Len(repl)), matched, before, after)
    ELSE <<Head(repl)>> \o GetSubstitution(Tail(repl), matched, before, after)

\* url.replace(pat, repl) with a string pattern: the first occurrence only.
StringReplace(url, pat, repl) ==
  LET k == IndexOf(url, pat, 1) IN
  IF k = 0 THEN url
  ELSE LET before == SubSeq(url, 1, k - 1)
           after  == SubSeq(url, k + Len(pat), Len(url))
       IN before \o GetSubstitution(repl, pat, before, after) \o after

\* The test `if (testData[variableName])` that decides a replacement: a
\* missing key (undefined) and the empty string are both falsy.
VariableFound(row, variableName) ==
  variableName \in DOMAIN row /\ row[variableName] # <<>>

\* The while loop over the matches of the template.
RECURSIVE ReplaceLoop(_, _, _, _)
ReplaceLoop(urlTemplate, row, url, lastIndex) ==
  LET m == RegexExec(urlTemplate, lastIndex) IN
  IF m = <<0, 0>> THEN url
  ELSE LET variableName == SubSeq(urlTemplate, m[1] + 2, m[2] - 1)
           token == SubSeq(urlTemplate, m[1], m[2])
       IN ReplaceLoop(urlTemplate, row,
            IF VariableFound(row, variableName)
              THEN StringReplace(url, token, row[variableName])
              ELSE url,
            m[2] + 1)

replaceUrlVariables(urlTemplate, testData) ==
  IF testData = None THEN urlTemplate
  ELSE ReplaceLoop(urlTemplate, Value(testData), urlTemplate, 1)

(* ------------------ runs of the resolver on its inputs ---------------- *)
Segments == { Prefix, TokId, TokLevel, <<"@","{">>, <<"}">> }

RECURSIVE Concat(_)
Concat(segs) == IF segs = <<>> THEN <<>> ELSE Head(segs) \o Concat(Tail(segs))

Templates ==
  { Concat(segs) : segs \in UNION { [1..n -> Segments] : n \in 0..MaxSegments } }

IdValues == { <<>>, <<"a","b","c","1","2","3">>, TokLevel, <<"$","&">> }
EmptyRow == [k \in {} |-> <<>>]
Rows ==
  {EmptyRow, [k \in {KeyLevel} |-> <<"1">>]}
    \cup { [k \in {KeyLevel, KeyId} |-> IF k = KeyId THEN v ELSE <<"1">>]
             : v \in IdValues }

InitTemplate ==
  /\ tplIn \in Templates
  /\ rowIn \in {None} \cup {Some(r) : r \in Rows}
  /\ urlOut = None
  /\ statsManager = NewStatsManager("websocket")
  /\ config = DefaultConfig("websocket")
  /\ apiCall = "none"
  /\ NoConnections /\ NoTools

Resolve ==
  /\ urlOut = None
  /\ urlOut' = Some(replaceUrlVariables(tplIn, rowIn))
  /\ UNCHANGED <<tplIn, rowIn, toolVars, statVars, config, connections, owner, proc,
                 mgrVars>>

NextTemplate == Resolve

SpecTemplate == InitTemplate /\ [][NextTemplate]_vars

(* ====================================================================== *)
(* Connections (WebSocketConnection, HttpConnection)                       *)
(* ====================================================================== *)
\* A connection object, with the part of the runtime that belongs to it:
\*   ws              0 (null) or the index in socks of the referenced socket
\*   socks           the sockets created by this object that still have
\*                   events to deliver to its handlers, each one
\*                   "connecting", "open", "failing" (error emitted, close to
\*                   follow), "aborting" (terminated while connecting: error
\*                   and close to follow) or "terminated" (close to follow)
\*   opened          for each socket of socks, whether it has emitted 'open'
\*   reconnectTimer  "null", or the state of the timer the handle names:
\*                   "pending" or "spent" (fired or cleared; the handle is
\*                   not reset when its timer fires)
\*   timers          the number of pending setTimeout callbacks of this object
\*   req             HTTP: "none" or "inflight"
\*   lastResponseStatus  HTTP: 0 (null) or a status code
\*   target          the URL the last attempt was made to (None before)
\*   data            HTTP: the data of the last request (None: no body)
NewConnection(urlTemplate, id, testData) ==
  [ id |-> id, testData |-> testData,
    url |-> replaceUrlVariables(urlTemplate, testData),
    isClosing |-> FALSE, reconnectTimer |-> "null", timers |-> 0,
    ws |-> 0, socks |-> <<>>, opened |-> <<>>,
    req |-> "none", lastResponseStatus |-> 0, connectionClosedCalled |-> FALSE,
    target |-> None, data |-> None ]

\* new WebSocket(url) throws on a URL that is no ws:// URL.
IsWsUrl(url) == Len(url) >= 5 /\ SubSeq(url, 1, 5) = <<"w","s",":","/","/">>

RemoveAt(seq, k) == SubSeq(seq, 1, k - 1) \o SubSeq(seq, k + 1, Len(seq))

\* The connection handlers work on a pair [c |-> connection, sm |-> stats].

\* clearTimeout(this.reconnectTimer) when the handle is set: a pending timer
\* is cancelled, a fired one is not touched.
ClearReconnectTimer(c) ==
  IF c.reconnectTimer = "pending"
    THEN [c EXCEPT !.timers = @ - 1, !.reconnectTimer = "spent"]
    ELSE c

\* Mutant of scheduleReconnect: no timer is set while the handle is set (the
\* handle is never reset when its timer fires).
scheduleReconnectOnce(w) ==
  IF w.c.reconnectTimer # "null" THEN w
  ELSE [w EXCEPT !.c.timers = @ + 1, !.c.reconnectTimer = "pending"]

\* Mutant of scheduleReconnect: no timer is set.
scheduleReconnectNever(w) == w

scheduleReconnect(w) ==
  [w EXCEPT !.c = [ClearReconnectTimer(w.c) EXCEPT !.timers = @ + 1,
                                                  !.reconnectTimer = "pending"]]

\* ws.terminate(): a connecting socket aborts its handshake (error, then
\* close), an established one is destroyed (close); a socket already
\* terminated is left as it is.
Terminated(sock) ==
  CASE sock = "connecting" -> "aborting"
    [] sock \in {"open", "failing"} -> "terminated"
    [] OTHER -> sock

\* Mutant of WsClose: the connection is not marked as closing.
WsCloseUnmarked(w) ==
  LET c1 == [ClearReconnectTimer(w.c) EXCEPT !.reconnectTimer = "null"]
  IN [w EXCEPT !.c =
        IF c1.ws # 0
          THEN [c1 EXCEPT !.socks[c1.ws] = Terminated(@), !.ws = 0]
          ELSE c1]

\* WebSocketConnection.close()
WsClose(w) ==
  LET c1 == [ClearReconnectTimer(w.c) EXCEPT !.isClosing = TRUE,
                                             !.reconnectTimer = "null"]
  IN [w EXCEPT !.c =
        IF c1.ws # 0
          THEN [c1 EXCEPT !.socks[c1.ws] = Terminated(@), !.ws = 0]
          ELSE c1]

\* WebSocketConnection.connect()
WsConnect(w) ==
  LET w1 == IF w.c.ws # 0 THEN WsClose(w) ELSE w
      w2 == [w1 EXCEPT !.c.isClosing = FALSE, !.c.target = Some(w1.c.url),
                       !.sm = connectionAttempted(@)]
  IN IF IsWsUrl(w2.c.url)
       THEN [w2 EXCEPT !.c.socks = Append(@, "connecting"),
                       !.c.opened = Append(@, FALSE),
                       !.c.ws = Len(w2.c.socks) + 1]
       ELSE scheduleReconnect([w2 EXCEPT !.sm = connectionError(@)])

WsHandleOpen(w, connectTime) ==
  [w EXCEPT !.sm = connectionOpened(@, connectTime)]

\* Mutant of WsHandleError: the error handler schedules the retry itself.
WsHandleErrorRetries(w) ==
  scheduleReconnect([w EXCEPT !.sm = connectionError(@)])

WsHandleError(w) == [w EXCEPT !.sm = connectionError(@)]

WsHandleClose(w) ==
  LET w1 == [w EXCEPT !.sm = connectionClosed(@), !.c.ws = 0]
  IN IF ~w1.c.isClosing THEN scheduleReconnect(w1) ELSE w1

WsIsConnected(c) == c.ws # 0 /\ c.socks[c.ws] = "open"

\* method.toUpperCase() of the method names a run is given.
ToUpperCase(method) ==
  CASE method = "post" -> "POST"
    [] method = "put" -> "PUT"
    [] method = "patch" -> "PATCH"
    [] method = "get" -> "GET"
    [] OTHER -> method

\* this.method of the HTTP connections, set by the constructor from
\* config.httpMethod.
Method == ToUpperCase(config.httpMethod)

\* Mutant of RequestData: the row is attached whatever the method.
RequestDataAnyMethod(method, testData) == testData

\* requestConfig.data of connect(): the row for POST, PUT and PATCH when
\* there is one, else not set.
RequestData(method, testData) ==
  IF method \in {"POST", "PUT", "PATCH"} /\ testData # None
    THEN testData ELSE None

\* Mutant of HttpConnect: connectionClosedCalled is not reset.
HttpConnectKeepsFlag(w) ==
  [w EXCEPT !.c.isClosing = FALSE,
            !.c.target = Some(w.c.url), !.c.req = "inflight",
            !.c.data = RequestData(Method, w.c.testData),
            !.sm = connectionAttempted(@)]

\* HttpConnection.connect(): the request is handed to axios, which reports
\* every failure through the returned promise.  target and data are the url
\* and the data of the requestConfig.
HttpConnect(w) ==
  [w EXCEPT !.c.isClosing = FALSE, !.c.connectionClosedCalled = FALSE,
            !.c.target = Some(w.c.url), !.c.req = "inflight",
            !.c.data = RequestData(Method, w.c.testData),
            !.sm = connectionAttempted(@)]

\* Mutant of HttpIsConnected: a 3xx status counts as connected too.
HttpIsConnectedBelow400(c) ==
  c.lastResponseStatus # 0 /\ c.lastResponseStatus >= 200
    /\ c.lastResponseStatus < 400

\* HttpConnection.isConnected()
HttpIsConnected(c) ==
  c.lastResponseStatus # 0 /\ c.lastResponseStatus >= 200
    /\ c.lastResponseStatus < 300

HttpHandleSuccess(w, status, connectTime) ==
  [w EXCEPT !.c.lastResponseStatus = status,
            !.sm = connectionOpened(@, connectTime)]

\* Mutant of HttpHandleError: a failure without a response is not counted.
HttpHandleErrorUncounted(w, status) ==
  IF status = 0 THEN w
  ELSE [w EXCEPT !.c.lastResponseStatus = status, !.sm = connectionError(@)]

\* status 0: the error carries no response (network error, timeout).
HttpHandleError(w, status) ==
  [w EXCEPT !.c.lastResponseStatus = IF status # 0 THEN status ELSE @,
            !.sm = connectionError(@)]

HttpHandleClose(w) ==
  LET w1 == IF ~w.c.connectionClosedCalled
              THEN [w EXCEPT !.sm = connectionClosed(@),
                             !.c.connectionClosedCalled = TRUE]
              ELSE w
  IN IF ~w1.c.isClosing /\ ~HttpIsConnected(w1.c)
       THEN scheduleReconnect(w1) ELSE w1

\* The promise chain of one request: then(handleSuccess) or
\* catch(handleError), and finally the close.  axios resolves with a 2xx
\* response and rejects with any other response or with none.
HttpSettle(w, status, connectTime) ==
  LET w1 == [w EXCEPT !.c.req = "none"]
      w2 == IF status >= 200 /\ status < 300
              THEN HttpHandleSuccess(w1, status, connectTime)
              ELSE HttpHandleError(w1, status)
  IN IF ~w2.c.connectionClosedCalled THEN HttpHandleClose(w2) ELSE w2

\* Mutant of HttpClose: the pending retry timer is left running.
HttpCloseKeepsTimer(w) == [w EXCEPT !.c.isClosing = TRUE]

\* HttpConnection.close()
HttpClose(w) ==
  [w EXCEPT !.c = [ClearReconnectTimer(w.c) EXCEPT !.isClosing = TRUE,
                                                   !.reconnectTimer = "null"]]

IsHttp == config.testMode = "http"

Connect(w) == IF IsHttp THEN HttpConnect(w) ELSE WsConnect(w)
Close(w)   == IF IsHttp THEN HttpClose(w) ELSE WsClose(w)
IsConnected(c) == IF IsHttp THEN HttpIsConnected(c) ELSE WsIsConnected(c)

\* What a request may end with: no response (0), or a response status.
HttpOutcomes == {0, 200, 304, 500}

(* --------------------- steps of one connection ------------------------ *)
World(i) == [c |-> connections[i], sm |-> statsManager]

\* The step leaves connection i and the statistics as in w.
Becomes(i, w) ==
  /\ connections' = [connections EXCEPT ![i] = w.c]
  /\ statsManager' = w.sm
  /\ UNCHANGED <<apiCall, tplVars, toolVars, config, proc, mgrVars>>

Running == ~proc.exited

\* The 'open' event of socket k.
SocketOpen(i, k) ==
  /\ Running /\ ~IsHttp
  /\ connections[i].socks[k] = "connecting"
  /\ \E t \in 1..MaxConnectTime :
       Becomes(i, WsHandleOpen([World(i) EXCEPT !.c.socks[k] = "open",
                                                !.c.opened[k] = TRUE], t))
  /\ UNCHANGED <<owner>>

\* The 'error' event of socket k; its 'close' event follows.
SocketError(i, k) ==
  /\ Running /\ ~IsHttp
  /\ connections[i].socks[k] \in {"connecting", "open", "aborting"}
  /\ Becomes(i, WsHandleError(
       [World(i) EXCEPT !.c.socks[k] =
           IF @ = "aborting" THEN "terminated" ELSE "failing"]))
  /\ UNCHANGED <<owner>>

\* The 'close' event of socket k, the last event of the socket.
SocketClose(i, k) ==
  /\ Running /\ ~IsHttp
  /\ connections[i].socks[k] \in {"open", "failing", "terminated"}
  /\ LET c  == connections[i]
         c1 == [c EXCEPT !.socks = RemoveAt(@, k),
                         !.opened = RemoveAt(@, k),
                         !.ws = IF @ > k THEN @ - 1 ELSE @]
     IN Becomes(i, WsHandleClose([c |-> c1, sm |-> statsManager]))
  /\ owner' = IF i = 1 /\ owner.closeCalls > 0
                THEN [owner EXCEPT !.closedAfterClose = @ + 1] ELSE owner

\* The response, or the failure, of the request in flight.
HttpResponse(i) ==
  /\ Running /\ IsHttp
  /\ connections[i].req = "inflight"
  /\ \E status \in HttpOutcomes, t \in 1..MaxConnectTime :
       Becomes(i, HttpSettle(World(i), status, t))
  /\ owner' = IF i = 1 /\ owner.closeCalls > 0
                THEN [owner EXCEPT !.closedAfterClose = @ + 1] ELSE owner

\* A retry timer of connection i fires: the handle's own timer when tracked,
\* else a timer that was replaced without being cleared.
ReconnectTimerFires(i) ==
  /\ Running
  /\ connections[i].timers > 0
  /\ Attempted(statsManager) < MaxAttempts
  /\ \E tracked \in BOOLEAN :
       /\ tracked => connections[i].reconnectTimer = "pending"
       /\ ~tracked => connections[i].timers >
                        (IF connections[i].reconnectTimer = "pending" THEN 1 ELSE 0)
       /\ Becomes(i, Connect(
            [World(i) EXCEPT !.c.timers = @ - 1,
                             !.c.reconnectTimer = IF tracked THEN "spent" ELSE @]))
  /\ UNCHANGED <<owner>>

ConnectionStep(i) ==
  \/ \E k \in DOMAIN connections[i].socks : SocketOpen(i, k)
  \/ \E k \in DOMAIN connections[i].socks : SocketError(i, k)
  \/ \E k \in DOMAIN connections[i].socks : SocketClose(i, k)
  \/ HttpResponse(i)
  \/ ReconnectTimerFires(i)

(* ====================================================================== *)
(* Redis test data (redis-client.ts) and the managers                      *)
(* ====================================================================== *)
\* The manager start() initializes: the other one is constructed by the
\* import of its module and only ever shuts down.
Active == IF IsHttp THEN "http" ELSE "ws"

\* Mutant of CeilDiv: the quotient rounded down.
FloorDiv(a, b) == a \div b

\* Math.ceil(a / b) for a >= 0, b > 0.
CeilDiv(a, b) == (a + b - 1) \div b

\* Mutant of NumConnections: the count key decides, data or not.
NumConnectionsFromCount(cfg, hasTestData, dataCount) ==
  CeilDiv(dataCount, cfg.replicas)

\* The connection count initialize() computes once loadTestData() has
\* answered hasTestData, getTestDataCount() answering dataCount.
NumConnections(cfg, hasTestData, dataCount) ==
  IF hasTestData THEN CeilDiv(dataCount, cfg.replicas) ELSE cfg.numConnections

\* A state of the creation: the connections, the statistics, the Redis
\* client's popTestData() calls under way, the loop counters, the place
\* initialize() is at, and what it computed.
Creation ==
  [ conns |-> connections, sm |-> statsManager,
    pending |-> redisClient.pending, i |-> init.i,
    createdCount |-> init.createdCount, pc |-> init.pc,
    hasTestData |-> manager[Active].hasTestData,
    numConnections |-> manager[Active].calculatedNumConnections ]

\* getConnectionStats() of the manager in use.
getConnectionStats(conns) ==
  [ total  |-> Len(conns),
    active |-> Cardinality({i \in DOMAIN conns : IsConnected(conns[i])}) ]

\* Mutant of CreateConnection: the new connection takes the place of the
\* last one.
CreateConnectionReplacing(st, id, testData) ==
  LET w == Connect([c |-> NewConnection(TargetUrl(config), id, testData),
                    sm |-> st.sm])
  IN [st EXCEPT !.conns = IF @ = <<>> THEN <<w.c>>
                          ELSE [@ EXCEPT ![Len(@)] = w.c],
                !.sm = w.sm]

\* new XConnection(url, id, testData); connections.push(); connection.connect()
CreateConnection(st, id, testData) ==
  LET w == Connect([c |-> NewConnection(TargetUrl(config), id, testData),
                    sm |-> st.sm])
  IN [st EXCEPT !.conns = Append(@, w.c), !.sm = w.sm]

\* redisClient.popTestData() is called and awaited by `who`; on a client
\* that has quit the command is rejected.
IssuePop(st, who) ==
  [st EXCEPT !.pending = Append(@, [who |-> who, stage |-> "lpop",
                                    data |-> None,
                                    dead |-> redisClient.closed])]

\* createInstantConnections(): the loop runs from index st.i until it has
\* to wait (for a pop, or, in the WebSocket manager, for the pause after
\* every PauseEvery connections) or is through, and initialize() returns.
\* Mutant of InstantAfterCreate: the loop ends after its first connection.
InstantAfterCreateStops(st) == [st EXCEPT !.i = @ + 1, !.pc = "done"]

RECURSIVE InstantLoop(_)
InstantAfterCreate(st) ==
  IF ~IsHttp /\ st.i > 0 /\ st.i % PauseEvery = 0
    THEN [st EXCEPT !.pc = "pause"]
    ELSE InstantLoop([st EXCEPT !.i = @ + 1])

InstantLoop(st) ==
  IF st.i >= st.numConnections
    THEN [st EXCEPT !.pc = "done"]
  ELSE IF st.hasTestData
    THEN IssuePop([st EXCEPT !.pc = "instant"], "instant")
  ELSE InstantAfterCreate(CreateConnection(st, st.i + 1, None))

\* The loop goes on after its awaited pop has answered testData.
InstantResume(st, testData) ==
  InstantAfterCreate(CreateConnection(st, st.i + 1, testData))

\* The interval callback of createProgressiveConnections goes on to create
\* a connection (else it clears the interval and resolves).
TickProceeds(createdCount, numConnections, isShuttingDown) ==
  ~(createdCount >= numConnections \/ isShuttingDown)

\* Mutant of TickCreate: createdCount is left as it was.
TickCreateUncounted(st, testData) ==
  CreateConnection(st, st.createdCount + 1, testData)

\* The callback goes on after its awaited pop (or at once, without data).
TickCreate(st, testData) ==
  [CreateConnection(st, st.createdCount + 1, testData)
     EXCEPT !.createdCount = @ + 1]

\* The step leaves the creation as in st.  When initialize() returns,
\* start() goes on and registers its signal handlers.
CreationBecomes(st) ==
  /\ connections' = st.conns
  /\ statsManager' = st.sm
  /\ redisClient' = [redisClient EXCEPT !.pending = st.pending]
  /\ init' = [init EXCEPT !.i = st.i, !.createdCount = st.createdCount,
                          !.pc = st.pc]
  /\ proc' = IF st.pc = "done"
               THEN [proc EXCEPT !.handlersRegistered = TRUE] ELSE proc

\* initialize() behind `await redisClient.loadTestData()`.
BeginCreation(hasTestData) ==
  LET n  == NumConnections(config, hasTestData, redisClient.dataCount)
      st == [Creation EXCEPT !.hasTestData = hasTestData,
                             !.numConnections = n]
  IN /\ manager' = [manager EXCEPT
          ![Active].hasTestData = hasTestData,
          ![Active].calculatedNumConnections = n,
          ![Active].progressiveConnectionTimer =
              IF config.connectionMode = "progressive" THEN TRUE ELSE @]
     /\ CreationBecomes(IF config.connectionMode = "instant"
                          THEN InstantLoop([st EXCEPT !.i = 0])
                          ELSE [st EXCEPT !.createdCount = 0,
                                          !.pc = "progressive"])

\* loadTestData(): the reply to GET of the count key.  No count, or no
\* Redis: loadTestData() answers false.
CountReply ==
  /\ Running /\ init.pc = "get"
  /\ IF ~redis.up \/ redis.count = None \/ Value(redis.count) = <<>>
       THEN BeginCreation(FALSE)
       ELSE /\ redisClient' = [redisClient EXCEPT
                 !.dataCount = ParseInt(Value(redis.count))]
            /\ init' = [init EXCEPT !.pc = "llen"]
            /\ UNCHANGED <<connections, statsManager, manager, proc>>
  /\ UNCHANGED <<apiCall, tplVars, toolVars, config, owner, redis>>

\* loadTestData(): the reply to LLEN of the list.
LengthReply ==
  /\ Running /\ init.pc = "llen"
  /\ BeginCreation(Len(redis.list) # 0)
  /\ UNCHANGED <<apiCall, tplVars, toolVars, config, owner, redis>>

\* One run of the setInterval callback of createProgressiveConnections.
Tick ==
  /\ Running /\ manager[Active].progressiveConnectionTimer
  /\ IF ~TickProceeds(init.createdCount,
                      manager[Active].calculatedNumConnections,
                      manager[Active].isShuttingDown)
       THEN /\ manager' = [manager EXCEPT
                 ![Active].progressiveConnectionTimer = FALSE]
            /\ CreationBecomes([Creation EXCEPT !.pc = "done"])
       ELSE /\ manager[Active].hasTestData
                 => Len(redisClient.pending) < MaxPendingPops
            /\ CreationBecomes(IF manager[Active].hasTestData
                                 THEN IssuePop(Creation, "tick")
                                 ELSE TickCreate(Creation, None))
            /\ UNCHANGED manager
  /\ UNCHANGED <<apiCall, tplVars, toolVars, config, owner, redis>>

\* The oldest popTestData() call at `stage`, 0 when there is none.
FirstAt(stage) ==
  LET at == {k \in DOMAIN redisClient.pending :
               redisClient.pending[k].stage = stage}
  IN IF at = {} THEN 0 ELSE CHOOSE k \in at : \A j \in at : k <= j

\* popTestData() call k returns testData to the code that awaits it.
PopReturns(k, testData) ==
  LET st == [Creation EXCEPT !.pending = RemoveAt(@, k)] IN
  CreationBecomes(IF redisClient.pending[k].who = "tick"
                    THEN TickCreate(st, testData)
                    ELSE InstantResume(st, testData))

\* Mutant of Lpop: the head is read and stays in the list.
Lrange(list) == list

\* LPOP leaves the list without its head.
Lpop(list) == Tail(list)

\* popTestData(): the reply to LPOP.  An empty list answers null; with a
\* row, LLEN is sent for the log line, and is rejected when the client has
\* quit in the meantime (the catch answers null).
PopReply ==
  LET k == FirstAt("lpop") IN
  /\ Running /\ k # 0
  /\ IF redisClient.pending[k].dead \/ redis.list = <<>>
       THEN PopReturns(k, None) /\ UNCHANGED redis
       ELSE /\ redis' = [redis EXCEPT !.list = Lpop(@)]
            /\ IF redisClient.closed
                 THEN PopReturns(k, None)
                 ELSE /\ redisClient' = [redisClient EXCEPT
                           !.pending[k].stage = "llen",
                           !.pending[k].data = Some(Head(redis.list))]
                      /\ UNCHANGED <<connections, statsManager, init, proc>>
  /\ UNCHANGED <<apiCall, tplVars, toolVars, config, owner, manager>>

\* popTestData(): the reply to its LLEN; the row is returned.
PopLengthReply ==
  LET k == FirstAt("llen") IN
  /\ Running /\ k # 0
  /\ PopReturns(k, redisClient.pending[k].data)
  /\ UNCHANGED <<apiCall, tplVars, toolVars, config, owner, manager, redis>>

\* createInstantConnections(): the 100 ms pause is over.
PauseOver ==
  /\ Running /\ init.pc = "pause"
  /\ CreationBecomes(InstantLoop([Creation EXCEPT !.i = @ + 1]))
  /\ UNCHANGED <<apiCall, tplVars, toolVars, config, owner, manager, redis>>

\* Another replica of the runner pops a row of the shared list.
OtherReplicaPop ==
  /\ redis.list # <<>>
  /\ redis' = [redis EXCEPT !.list = Lpop(@),
                            !.taken = Append(@, Head(redis.list))]
  /\ UNCHANGED <<statVars, tplVars, toolVars, config, connections, owner, proc,
                 redisClient, manager, init>>

(* ------------------------ shutdown and signals ------------------------ *)
\* for (const connection of this.connections) connection.close()
RECURSIVE CloseAll(_, _, _)
CloseAll(conns, sm, i) ==
  IF i > Len(conns) THEN [conns |-> conns, sm |-> sm]
  ELSE LET w == Close([c |-> conns[i], sm |-> sm])
       IN CloseAll([conns EXCEPT ![i] = w.c], w.sm, i + 1)

\* Mutant of ShutdownReturnsAtOnce: shutdown() without its first line.
ShutdownNeverReturnsAtOnce(isShuttingDown) == FALSE

\* if (this.isShuttingDown) return
ShutdownReturnsAtOnce(isShuttingDown) == isShuttingDown

\* shutdown() of manager m up to its first await: the flag, the ticker,
\* the connections.  st holds the managers, connections and statistics.
ShutdownCall(st, m) ==
  IF ShutdownReturnsAtOnce(st.manager[m].isShuttingDown) THEN st
  ELSE LET closed == IF m = Active THEN CloseAll(st.conns, st.sm, 1)
                                   ELSE [conns |-> st.conns, sm |-> st.sm]
       IN [ manager |-> [st.manager EXCEPT
                           ![m].isShuttingDown = TRUE,
                           ![m].progressiveConnectionTimer = FALSE,
                           ![m].pc = "grace",
                           ![m].closeRuns = @ + 1],
            conns |-> closed.conns, sm |-> closed.sm ]

\* SIGINT or SIGTERM: the listeners run in the order they were registered,
\* the WebSocket manager's and the HTTP manager's (module imports), then
\* the handler of start() when it is registered: it awaits shutdown() of
\* the manager in use and exits; the await of a call that returned at once
\* is over before any timer or reply is looked at.
Signal ==
  /\ Running /\ proc.signals < MaxSignals
  /\ LET s0 == [manager |-> manager, conns |-> connections,
                sm |-> statsManager]
         s1 == ShutdownCall(s0, "ws")
         s2 == ShutdownCall(s1, "http")
         atOnce == ShutdownReturnsAtOnce(s2.manager[Active].isShuttingDown)
         s3 == IF proc.handlersRegistered THEN ShutdownCall(s2, Active) ELSE s2
     IN /\ manager' = s3.manager
        /\ connections' = s3.conns
        /\ statsManager' = s3.sm
        /\ proc' = [proc EXCEPT
             !.signals = @ + 1,
             !.exited = proc.handlersRegistered /\ atOnce,
             !.exitWaits = @ \/ (proc.handlersRegistered /\ ~atOnce)]
  /\ UNCHANGED <<apiCall, tplVars, toolVars, config, owner, redis, redisClient, init>>

\* Mutant of GraceOver: after the 1000 ms redisClient.close() is called,
\* statsManager.close() is left for later.
GraceOverClosesRedis(m) ==
  /\ Running /\ manager[m].pc = "grace"
  /\ manager' = [manager EXCEPT ![m].pc = "redis", ![m].redisCloses = @ + 1]
  /\ redisClient' = [redisClient EXCEPT !.closed = TRUE]
  /\ UNCHANGED <<statVars, tplVars, toolVars, config, connections, owner, proc, redis,
                 init>>

\* shutdown() of m: the 1000 ms are over, statsManager.close() is called
\* (it clears the periodic update and flushes).
GraceOver(m) ==
  /\ Running /\ manager[m].pc = "grace"
  \* timers of one delay fire in the order they were set
  /\ m = "http" => manager["ws"].pc # "grace"
  /\ manager' = [manager EXCEPT ![m].pc = "stats", ![m].statsCloses = @ + 1]
  /\ statsManager' = closeBegins(statsManager)
  /\ UNCHANGED <<apiCall, tplVars, toolVars, config, connections, owner, proc, redis,
                 redisClient, init>>

\* shutdown() of m: statsManager.close() is through, redisClient.close()
\* is called (it sends QUIT).
StatsClosed(m) ==
  /\ Running /\ manager[m].pc = "stats"
  /\ manager' = [manager EXCEPT ![m].pc = "redis", ![m].redisCloses = @ + 1]
  /\ redisClient' = [redisClient EXCEPT !.closed = TRUE]
  /\ statsManager' = closeReleased(closeFlushed(statsManager))
  /\ UNCHANGED <<apiCall, tplVars, toolVars, config, connections, owner, proc,
                 redis, init>>

\* shutdown() of m: redisClient.close() is through and shutdown() returns;
\* a handler of start() that awaits it exits the process.
RedisClosed(m) ==
  /\ Running /\ manager[m].pc = "redis"
  /\ manager' = [manager EXCEPT ![m].pc = "done"]
  /\ proc' = IF m = Active /\ proc.exitWaits
               THEN [proc EXCEPT !.exited = TRUE] ELSE proc
  /\ UNCHANGED <<statVars, tplVars, toolVars, config, connections, owner, redis,
                 redisClient, init>>

(* --------------------------- runs of the runner ----------------------- *)
\* The environment of a run: the mode, the way connections are created,
\* and whether a file of MaxRows rows was loaded into Redis, which the
\* RunReplicas replicas then share.
Init ==
  /\ \E mode \in {"websocket", "http"}, cmode \in {"instant", "progressive"},
        rows \in {0, MaxRows} :
       /\ config = [DefaultConfig(mode) EXCEPT
                      !.connectionMode = cmode,
                      !.numConnections = MaxStatic,
                      !.replicas = RunReplicas]
       /\ statsManager = NewStatsManager(mode)
       /\ redis = Loaded(rows)
  /\ redisClient = NewRedisClient
  /\ manager = [m \in Managers |-> NewManager]
  /\ init = [pc |-> "get", i |-> 0, createdCount |-> 0]
  /\ connections = <<>>
  /\ apiCall = "none"
  /\ NoResolverRun /\ NoTools /\ NoOwner /\ NoProcess

\* PauseOver is left out: below PauseEvery connections the loop never pauses.
Next ==
  \/ CountReply
  \/ LengthReply
  \/ Tick
  \/ PopReply
  \/ PopLengthReply
  \/ OtherReplicaPop
  \/ \E i \in DOMAIN connections : ConnectionStep(i)
  \/ Signal
  \/ \E m \in Managers : GraceOver(m)
  \/ \E m \in Managers : StatsClosed(m)
  \/ \E m \in Managers : RedisClosed(m)

Spec == Init /\ [][Next]_vars

\* The same runs with the event loop doing its work: a reply that is due
\* arrives, the interval callback runs while the interval is set, and the
\* timers and awaited calls of shutdown() complete.  Signals and the other
\* replicas come or not.
FairRun ==
  /\ WF_vars(CountReply) /\ WF_vars(LengthReply)
  /\ WF_vars(Tick)
  /\ WF_vars(PopReply) /\ WF_vars(PopLengthReply)
  /\ \A m \in Managers :
       WF_vars(GraceOver(m)) /\ WF_vars(StatsClosed(m)) /\ WF_vars(RedisClosed(m))

(* ------------------------- runs of the sizing ------------------------- *)
\* initialize() up to the start of the creation, for every environment:
\* Redis up or down, a file of 0..MaxCount rows loaded, 1..MaxReplicas
\* replicas sharing it, NUM_CONNECTIONS 1..MaxStatic.
InitSizing ==
  /\ \E mode \in {"websocket", "http"}, cmode \in {"instant", "progressive"},
        up \in BOOLEAN, rows \in 0..MaxCount, replicas \in 1..MaxReplicas,
        static \in 1..MaxStatic :
       /\ config = [DefaultConfig(mode) EXCEPT
                      !.connectionMode = cmode,
                      !.numConnections = static,
                      !.replicas = replicas]
       /\ statsManager = NewStatsManager(mode)
       /\ redis = [Loaded(rows) EXCEPT !.up = up]
  /\ redisClient = NewRedisClient
  /\ manager = [m \in Managers |-> NewManager]
  /\ init = [pc |-> "get", i |-> 0, createdCount |-> 0]
  /\ connections = <<>>
  /\ apiCall = "none"
  /\ NoResolverRun /\ NoTools /\ NoOwner /\ NoProcess

NextSizing == CountReply \/ LengthReply \/ OtherReplicaPop

SpecSizing == InitSizing /\ [][NextSizing]_vars

(* ------------- runs of the creation, with no shutdown ----------------- *)
\* initialize() from its first line to its return and the connections it
\* created afterwards, with no signal arriving, for every environment:
\* Redis up or down, a file of 0..MaxRows rows loaded, one replica or
\* RunReplicas, NUM_CONNECTIONS 1..MaxStatic.
InitCreation ==
  /\ \E mode \in {"websocket", "http"}, cmode \in {"instant", "progressive"},
        up \in BOOLEAN, rows \in 0..MaxRows, replicas \in {1, RunReplicas},
        static \in 1..MaxStatic :
       /\ config = [DefaultConfig(mode) EXCEPT
                      !.connectionMode = cmode,
                      !.numConnections = static,
                      !.replicas = replicas]
       /\ statsManager = NewStatsManager(mode)
       /\ redis = [Loaded(rows) EXCEPT !.up = up]
  /\ redisClient = NewRedisClient
  /\ manager = [m \in Managers |-> NewManager]
  /\ init = [pc |-> "get", i |-> 0, createdCount |-> 0]
  /\ connections = <<>>
  /\ apiCall = "none"
  /\ NoResolverRun /\ NoTools /\ NoOwner /\ NoProcess

NextCreation ==
  \/ CountReply
  \/ LengthReply
  \/ Tick
  \/ PopReply
  \/ PopLengthReply
  \/ OtherReplicaPop
  \/ \E i \in DOMAIN connections : ConnectionStep(i)

SpecCreation == InitCreation /\ [][NextCreation]_vars

(* ------------- runs of the progressive creation and shutdown ---------- *)
\* initialize() in progressive mode and shutdown(), with signals arriving
\* at any moment; the connections created get no event of their own, and
\* the URL has no variable for the rows to fill.
InitRampUp ==
  /\ \E mode \in {"websocket", "http"}, rows \in {0, MaxRows} :
       /\ config = [DefaultConfig(mode) EXCEPT
                      !.connectionMode = "progressive",
                      !.wsUrl = Prefix, !.httpUrl = Prefix,
                      !.numConnections = MaxStatic,
                      !.replicas = RunReplicas]
       /\ statsManager = NewStatsManager(mode)
       /\ redis = Loaded(rows)
  /\ redisClient = NewRedisClient
  /\ manager = [m \in Managers |-> NewManager]
  /\ init = [pc |-> "get", i |-> 0, createdCount |-> 0]
  /\ connections = <<>>
  /\ apiCall = "none"
  /\ NoResolverRun /\ NoTools /\ NoOwner /\ NoProcess

NextRampUp ==
  \/ CountReply
  \/ LengthReply
  \/ Tick
  \/ PopReply
  \/ PopLengthReply
  \/ OtherReplicaPop
  \/ Signal
  \/ \E m \in Managers : GraceOver(m)
  \/ \E m \in Managers : StatsClosed(m)
  \/ \E m \in Managers : RedisClosed(m)

SpecRampUp == InitRampUp /\ [][NextRampUp]_vars /\ FairRun

(* ------------------- runs of a single connection --------------------- *)
\* One connection object, as a test of the class would drive it: it is
\* constructed, connect() is called once, and close() is called at any
\* moments, any number of times.
TestRow == [k \in {KeyLevel, KeyId} |-> IF k = KeyId THEN <<"7">> ELSE <<"1">>]

InitConn ==
  /\ \E mode \in {"websocket", "http"}, url \in {Prefix \o TokId, TokId} :
       /\ config = [DefaultConfig(mode) EXCEPT !.wsUrl = url]
       /\ statsManager = NewStatsManager(mode)
       /\ connections = << NewConnection(TargetUrl(config), 1, Some(TestRow)) >>
  /\ apiCall = "none"
  /\ NoResolverRun /\ NoTools /\ NoOwner /\ NoProcess /\ NoManagers

OwnerConnect ==
  /\ Attempted(statsManager) = 0 /\ owner.closeCalls = 0
  /\ Becomes(1, Connect(World(1)))
  /\ UNCHANGED <<owner>>

SocketOfConnection(c) ==
  IF c.ws = 0 THEN "null" ELSE c.socks[c.ws]

OwnerClose ==
  /\ Attempted(statsManager) > 0
  /\ owner.closeCalls < MaxCloseCalls
  /\ Becomes(1, Close(World(1)))
  /\ owner' = [owner EXCEPT
       !.closeCalls = @ + 1,
       !.socketAtClose = IF owner.closeCalls = 0
                           THEN SocketOfConnection(connections[1]) ELSE @]

NextConn == OwnerConnect \/ OwnerClose \/ ConnectionStep(1)

SpecConn == InitConn /\ [][NextConn]_vars

\* The same runs with the event loop doing its work: a socket that has an
\* event to deliver delivers it, a request in flight settles, and a pending
\* timer fires.  The owner is free to call close() or not.
FairConn ==
  /\ WF_vars(\E k \in DOMAIN connections[1].socks : SocketError(1, k))
  /\ WF_vars(\E k \in DOMAIN connections[1].socks : SocketClose(1, k))
  /\ WF_vars(HttpResponse(1))
  /\ WF_vars(ReconnectTimerFires(1))

SpecConnFair == SpecConn /\ FairConn

(* ---------------------------------------------------------------------- *)
(* One connection while the metrics sink goes down and comes back          *)
(* ---------------------------------------------------------------------- *)
\* The sink becomes unreachable or reachable again: from now on the flush
\* of updateStats() is rejected or goes through.
SinkChanges ==
  /\ statsManager' = [statsManager EXCEPT !.sinkUp = ~@]
  /\ UNCHANGED <<apiCall, tplVars, toolVars, config, connections, owner,
                 proc, redis, redisClient, manager, init>>

InitSink ==
  /\ \E mode \in {"websocket", "http"}, url \in {Prefix \o TokId, TokId},
        up \in BOOLEAN :
       /\ config = [DefaultConfig(mode) EXCEPT !.wsUrl = url]
       /\ statsManager = [NewStatsManager(mode) EXCEPT !.sinkUp = up]
       /\ connections = << NewConnection(TargetUrl(config), 1, Some(TestRow)) >>
  /\ apiCall = "none"
  /\ NoResolverRun /\ NoTools /\ NoOwner /\ NoProcess /\ NoManagers

NextSink == OwnerConnect \/ OwnerClose \/ ConnectionStep(1) \/ SinkChanges

SpecSink == InitSink /\ [][NextSink]_vars

(* ---------------------------------------------------------------------- *)
(* One HTTP connection under each method, with and without a row           *)
(* ---------------------------------------------------------------------- *)
\* The values HTTP_METHOD is given.
HttpMethods == {"GET", "POST", "put", "PATCH", "DELETE"}

InitRequest ==
  /\ \E method \in HttpMethods, testData \in {None, Some(TestRow)},
        url \in {Prefix \o TokId, Prefix} :
       /\ config = [DefaultConfig("http") EXCEPT !.httpUrl = url,
                                                !.httpMethod = method]
       /\ statsManager = NewStatsManager("http")
       /\ connections = << NewConnection(TargetUrl(config), 1, testData) >>
  /\ apiCall = "none"
  /\ NoResolverRun /\ NoTools /\ NoOwner /\ NoProcess /\ NoManagers

NextRequest ==
  OwnerConnect \/ OwnerClose \/ HttpResponse(1) \/ ReconnectTimerFires(1)

SpecRequest == InitRequest /\ [][NextRequest]_vars

(* ====================================================================== *)
(* Claims                                                                  *)
(* ====================================================================== *)

\* C1: in WebSocket mode, whatever the order of attempted / opened / closed /
\* errored events, currentOpen is never negative, and a closed() event that
\* arrives while currentOpen is 0 leaves it at 0.
C1_CurrentOpenNeverNegative ==
  /\ [](~statsManager.isHttpMode => statsManager.wsStats.currentOpen >= 0)
  /\ [][ (ApiClosed /\ ~statsManager.isHttpMode
            /\ statsManager.wsStats.currentOpen = 0)
         => statsManager'.wsStats.currentOpen = 0 ]_vars

\* C1 witness: a closed() event has arrived with nothing open and the counter
\* sits at 0 with the close counted.
C1_Witness ==
  /\ ~statsManager.isHttpMode
  /\ apiCall = "closed"
  /\ statsManager.wsStats.currentOpen = 0
  /\ statsManager.wsStats.totalClosed = 2
  /\ Len(statsManager.connectTimes) = 1

\* The resolution C9 describes: every token whose key is present in the row
\* is replaced by that key's value, every other token is left verbatim.
RECURSIVE ClaimedResolution(_, _, _)
ClaimedResolution(urlTemplate, testData, from) ==
  LET m == RegexExec(urlTemplate, from) IN
  IF m = <<0, 0>> THEN SubSeq(urlTemplate, from, Len(urlTemplate))
  ELSE LET variableName == SubSeq(urlTemplate, m[1] + 2, m[2] - 1) IN
       SubSeq(urlTemplate, from, m[1] - 1)
         \o (IF testData # None /\ variableName \in DOMAIN Value(testData)
               THEN Value(testData)[variableName]
               ELSE SubSeq(urlTemplate, m[1], m[2]))
         \o ClaimedResolution(urlTemplate, testData, m[2] + 1)

\* C9: resolving a template replaces every occurrence of each token @{name}
\* whose key is present in the row by that key's value and leaves every other
\* token (all of them when no row is given) verbatim.
C9_ReplacesEveryPresentKey ==
  urlOut # None => Value(urlOut) = ClaimedResolution(tplIn, rowIn, 1)

\* C7: close() called twice on a connection whose socket is connecting or
\* open produces exactly one closed() event (never a second one, and one once
\* the socket has delivered its events), and the second call changes nothing.
C7_CloseIsIdempotent ==
  /\ []( (~IsHttp /\ owner.socketAtClose \in {"connecting", "open"})
           => /\ owner.closedAfterClose <= 1
              /\ (connections[1].socks = <<>> => owner.closedAfterClose = 1) )
  /\ [][ (OwnerClose /\ ~IsHttp /\ owner.closeCalls >= 1
            /\ owner.socketAtClose \in {"connecting", "open"})
         => UNCHANGED <<connections, statsManager>> ]_vars

\* C7 witness: close() was called twice on a connection that was open, and
\* its socket has closed.
C7_Witness ==
  /\ ~IsHttp
  /\ owner.closeCalls = 2 /\ owner.socketAtClose = "open"
  /\ connections[1].socks = <<>>
  /\ owner.closedAfterClose = 1

\* A failure of connection i: the close of a socket, a request that ends
\* without success, or a connect() whose socket constructor throws.
FailureOf(i) ==
  \/ \E k \in DOMAIN connections[i].socks : SocketClose(i, k)
  \/ /\ HttpResponse(i) \/ ReconnectTimerFires(i) \/ OwnerConnect
     /\ Errors(statsManager') = Errors(statsManager) + 1

\* C10: a failure of a connection that is not closing intentionally leaves
\* exactly one retry timer pending, named by the handle, and no connection
\* ever has two pending retry timers.
C10_OneRetryPerFailure ==
  /\ [](\A i \in DOMAIN connections : connections[i].timers <= 1)
  /\ [][ \A i \in DOMAIN connections :
           (FailureOf(i) /\ ~connections'[i].isClosing)
             => /\ connections'[i].timers = 1
                /\ connections'[i].reconnectTimer = "pending" ]_vars

\* C10 witness: a second attempt has failed and its retry is pending.
C10_Witness ==
  /\ Attempted(statsManager) = 2
  /\ connections[1].timers = 1
  /\ connections[1].reconnectTimer = "pending"
  /\ ~connections[1].isClosing

\* A stored success rate n/d * 100 lies in [0, 100].
RateInRange(rate) == rate[2] > 0 /\ 0 <= rate[1] /\ rate[1] <= rate[2]

\* C2: in every state a run of the runner reaches, whatever its connections
\* go through, the stored WebSocket and HTTP success rates lie in [0, 100],
\* and a rate is 0 while nothing was attempted.
C2_SuccessRateInRange ==
  /\ RateInRange(statsManager.wsStats.successRate)
  /\ RateInRange(statsManager.httpStats.successRate)
  /\ statsManager.wsStats.totalAttempted = 0
       => statsManager.wsStats.successRate[1] = 0
  /\ statsManager.httpStats.totalAttempted = 0
       => statsManager.httpStats.successRate[1] = 0

\* C2 witness: two connections, one open or closed and one that failed,
\* leave a WebSocket rate of 50 %.
C2_Witness ==
  /\ ~statsManager.isHttpMode
  /\ Len(connections) = 2
  /\ statsManager.wsStats.totalErrors >= 1
  /\ statsManager.wsStats.successRate = <<1, 2>>

\* C3: in progressive mode, however the interval callbacks interleave with
\* the pops they await, no more connections are created than initialize()
\* computed.
C3_CreatedWithinTarget ==
  (config.connectionMode = "progressive" /\ init.pc \in {"progressive", "done"})
    => Len(connections) <= manager[Active].calculatedNumConnections

\* The rows a sequence of optional rows holds.
RowsOf(opts) == {Value(opts[k]) : k \in {j \in DOMAIN opts : opts[j] # None}}

\* C4: a row popped from the list is bound to at most one connection, is
\* never also handed to another replica and never stays in the list; a
\* connection keeps its row and its URL, which is the template resolved
\* with that row, and a retry sends no command to Redis.
C4_RowBoundOnce ==
  /\ [](/\ \A i, j \in DOMAIN connections :
              (i # j /\ connections[i].testData # None)
                => connections[i].testData # connections[j].testData
        /\ \A i \in DOMAIN connections :
              /\ connections[i].testData # None
                   => /\ Value(connections[i].testData) \notin RowsOf(
                            [k \in DOMAIN redis.taken |-> Some(redis.taken[k])])
                      /\ Value(connections[i].testData) \notin RowsOf(
                            [k \in DOMAIN redis.list |-> Some(redis.list[k])])
                      /\ Value(connections[i].testData) \notin RowsOf(
                            [k \in DOMAIN redisClient.pending |->
                               redisClient.pending[k].data])
              /\ connections[i].url = replaceUrlVariables(
                     TargetUrl(config), connections[i].testData))
  /\ [][ \A i \in DOMAIN connections :
           /\ connections'[i].testData = connections[i].testData
           /\ connections'[i].url = connections[i].url
           /\ ReconnectTimerFires(i)
                => /\ redis' = redis /\ redisClient' = redisClient
                   /\ connections'[i].target = Some(connections[i].url) ]_vars

\* C4 witness: the connection holds one row, another replica took the
\* other, and the connection has retried.
C4_Witness ==
  /\ Len(connections) = 1
  /\ connections[1].testData = Some(DataRow(1))
  /\ redis.taken = <<DataRow(2)>>
  /\ Attempted(statsManager) = 2
  /\ connections[1].target = Some(connections[1].url)

\* C5: however many times shutdown() of a manager is called, the loop that
\* closes the connections runs once, and statsManager.close() and
\* redisClient.close() are called once each by that manager: never twice,
\* and once each when shutdown() has returned.
C5_TeardownOnce ==
  \A m \in Managers :
    /\ manager[m].closeRuns <= 1
    /\ manager[m].statsCloses <= 1
    /\ manager[m].redisCloses <= 1
    /\ manager[m].isShuttingDown => manager[m].closeRuns = 1
    /\ manager[m].pc \in {"stats", "redis", "done"} => manager[m].statsCloses = 1
    /\ manager[m].pc \in {"redis", "done"} => manager[m].redisCloses = 1

\* C5 witness: a second signal has called shutdown() while the first call
\* waits in its grace period, with a connection to close.
C5_Witness ==
  /\ proc.signals = 2
  /\ manager[Active].pc = "grace"
  /\ manager[Active].closeRuns = 1
  /\ Len(connections) >= 1

\* C6: the process has exited only when shutdown() of the manager in use
\* has run to its end: connections closed, grace period over,
\* statsManager.close() and redisClient.close() through.
C6_ExitAfterShutdown ==
  proc.exited => manager[Active].pc = "done"

\* n = ceil(a / b), said without the division.
IsCeilOf(n, a, b) == n * b >= a /\ (n - 1) * b < a

\* C8 as amended: when the count key holds a number and the list is not
\* empty, the connection count is ceil(count key / replicas), whatever the
\* number of rows left in the list; without a count key, without Redis or
\* with an empty list it is NUM_CONNECTIONS.
C8_TargetFromCountKey ==
  [][ /\ LengthReply
        => IF Len(redis.list) # 0
             THEN IsCeilOf(manager'[Active].calculatedNumConnections,
                           ParseInt(Value(redis.count)), config.replicas)
             ELSE manager'[Active].calculatedNumConnections
                    = config.numConnections
      /\ (CountReply /\ init'.pc # "llen")
        => manager'[Active].calculatedNumConnections = config.numConnections
    ]_vars

\* C8 witness: a file of 3 rows, 2 replicas, one row already taken by the
\* other replica: the manager plans 2 connections.
C8_Witness ==
  /\ init.pc \notin {"get", "llen"}
  /\ manager[Active].hasTestData
  /\ redis.count = Some(<<"3">>)
  /\ Len(redis.taken) >= 1
  /\ config.replicas = 2
  /\ manager[Active].calculatedNumConnections = 2

\* C8 as stated: with rows in the list, the connection count is
\* ceil(rows available in the list / replicas).
C8_TargetFromAvailableRows ==
  [][ (LengthReply /\ Len(redis.list) # 0)
        => IsCeilOf(manager'[Active].calculatedNumConnections,
                    Len(redis.list), config.replicas) ]_vars

\* C11: once the owner has called close() on a connection, no further
\* attempt is counted and no retry timer is pending, whatever arrives
\* afterwards: the error and close events of the terminated socket, or the
\* completion of the HTTP request that was in flight.
C11_NoRestartAfterClose ==
  /\ [](owner.closeCalls >= 1
          => /\ connections[1].timers = 0
             /\ connections[1].reconnectTimer # "pending"
             /\ connections[1].isClosing)
  /\ [][ owner.closeCalls >= 1
           => Attempted(statsManager') = Attempted(statsManager) ]_vars

\* C11 witness: the only request of an HTTP connection failed with status
\* 500 after close() was called, and no retry is scheduled.
C11_Witness ==
  /\ IsHttp
  /\ owner.closeCalls >= 1
  /\ owner.closedAfterClose = 1
  /\ Attempted(statsManager) = 1
  /\ connections[1].lastResponseStatus = 500
  /\ connections[1].timers = 0

\* A WebSocket connection is in Error (a socket has emitted its error and
\* its close is to follow) or in Closed (the close was handled, the retry
\* is awaited), and was not closed by its owner.
ClosedOrError(c) ==
  /\ ~c.isClosing
  /\ \/ c.timers > 0
     \/ \E k \in DOMAIN c.socks : c.socks[k] = "failing"

\* C12: with timers and socket events delivered, a WebSocket connection in
\* Closed or Error that its owner has not closed goes on to a new attempt,
\* unless the owner calls close(); and so after each attempt (as far as
\* the runs are followed: below MaxAttempts attempts).
C12_FailureLeadsToRetry ==
  \A n \in 1..(MaxAttempts - 1) :
    (~IsHttp /\ owner.closeCalls = 0 /\ Attempted(statsManager) = n
       /\ ClosedOrError(connections[1]))
      ~> (Attempted(statsManager) > n \/ owner.closeCalls > 0)

\* C12 witness: after two failures the third attempt is under way, the
\* owner never having called close().
C12_Witness ==
  /\ ~IsHttp /\ owner.closeCalls = 0
  /\ Attempted(statsManager) = 3
  /\ statsManager.wsStats.totalClosed = 2
  /\ WsIsConnected(connections[1])

\* close() has been applied to connection c and has left nothing behind:
\* no socket connecting or open, no retry timer pending.
ClosedForGood(c) ==
  /\ c.isClosing
  /\ c.timers = 0
  /\ \A k \in DOMAIN c.socks : c.socks[k] \notin {"connecting", "open"}

\* C13: once shutdown() of the manager in use has closed the connections,
\* every connection the manager holds, whenever it was created, has been
\* closed for good.
C13_AllClosedAfterShutdown ==
  manager[Active].isShuttingDown
    => \A i \in DOMAIN connections : ClosedForGood(connections[i])

\* C14: in progressive mode no connection is created once shutdown() was
\* called.
C14_NoCreationAfterShutdown ==
  [][ (config.connectionMode = "progressive"
         /\ manager[Active].isShuttingDown)
        => Len(connections') = Len(connections) ]_vars

\* C15: once statsManager.close() called by shutdown() of the manager in
\* use has returned, no event is reported to the StatsManager any more: no
\* counter of it changes.
C15_NoEventAfterStatsClose ==
  [][ manager[Active].pc \in {"redis", "done"}
        => /\ statsManager'.wsStats = statsManager.wsStats
           /\ statsManager'.httpStats = statsManager.httpStats
           /\ statsManager'.closePoints = statsManager.closePoints ]_vars

\* C16: in a run of shutdown() of a manager, the ticker is cancelled and
\* every connection closed when the run starts; statsManager.close() is
\* called only after that, when the grace period is over, and
\* redisClient.close() only when statsManager.close() has returned.
C16_ShutdownOrder ==
  /\ [](\A m \in Managers :
          /\ manager[m].statsCloses >= 1
               => manager[m].closeRuns >= 1 /\ manager[m].pc # "grace"
          /\ manager[m].redisCloses >= 1
               => manager[m].statsCloses >= 1
                    /\ manager[m].pc \in {"redis", "done"})
  /\ [][ \A m \in Managers :
           /\ manager'[m].closeRuns > manager[m].closeRuns
                => /\ manager[m].statsCloses = 0 /\ manager[m].redisCloses = 0
                   /\ ~manager'[m].progressiveConnectionTimer
                   /\ manager'[m].pc = "grace"
                   /\ m = Active => \A i \in DOMAIN connections :
                                      connections'[i].isClosing
           /\ manager'[m].statsCloses > manager[m].statsCloses
                => manager[m].pc = "grace" /\ manager[m].redisCloses = 0
           /\ manager'[m].redisCloses > manager[m].redisCloses
                => manager[m].pc = "stats" ]_vars

\* C16 witness: shutdown() of the manager in use has run to its end in
\* progressive mode, with a connection to close.
C16_Witness ==
  /\ config.connectionMode = "progressive"
  /\ manager[Active].pc = "done"
  /\ manager[Active].closeRuns = 1
  /\ manager[Active].statsCloses = 1
  /\ manager[Active].redisCloses = 1
  /\ redisClient.closed /\ ~statsManager.updateInterval
  /\ Len(connections) >= 1 /\ connections[1].isClosing

\* The fractions a and b are the same number.
SameFraction(a, b) == a[1] * b[2] = b[1] * a[2]

\* C17: after every call of an event method the stored success rate is its
\* formula on the counters as they are: (currentOpen + totalClosed) /
\* totalAttempted for WebSocket, totalSuccessful / totalAttempted for HTTP,
\* and 0 while totalAttempted is 0.
C17_RateIsCurrent ==
  apiCall # "none" =>
    /\ SameFraction(statsManager.wsStats.successRate,
         IF statsManager.wsStats.totalAttempted = 0 THEN ZeroFraction
         ELSE << statsManager.wsStats.currentOpen
                   + statsManager.wsStats.totalClosed,
                 statsManager.wsStats.totalAttempted >>)
    /\ SameFraction(statsManager.httpStats.successRate,
         IF statsManager.httpStats.totalAttempted = 0 THEN ZeroFraction
         ELSE << statsManager.httpStats.totalSuccessful,
                 statsManager.httpStats.totalAttempted >>)

\* C18: while no socket of a WebSocket connection has ever opened (and its
\* owner has not closed it), its failed attempts count nothing towards the
\* success rate: the stored rate is 0.
C18_FailuresAreNotSuccesses ==
  (~IsHttp /\ owner.closeCalls = 0 /\ statsManager.connectTimes = <<>>)
    => statsManager.wsStats.successRate[1] = 0

\* C19: an HTTP connection records the closed event once for each of its
\* request/response cycles: when the cycle completes, with a response or
\* with a failure, and at no other moment.
C19_HttpClosedOncePerCycle ==
  /\ [](IsHttp =>
          statsManager.closePoints =
            Attempted(statsManager)
              - (IF connections[1].req = "inflight" THEN 1 ELSE 0))
  /\ [][ IsHttp =>
           statsManager'.closePoints =
             statsManager.closePoints + (IF HttpResponse(1) THEN 1 ELSE 0)
       ]_vars

\* C19 witness: a cycle that failed and a cycle that succeeded, two closed
\* events.
C19_Witness ==
  /\ IsHttp
  /\ Attempted(statsManager) = 2
  /\ connections[1].req = "none"
  /\ statsManager.httpStats.totalErrors = 1
  /\ statsManager.httpStats.totalSuccessful = 1
  /\ statsManager.closePoints = 2

\* The step completes a request of connection 1 with this outcome.
CompletesWith(status, t) ==
  /\ HttpResponse(1)
  /\ connections'[1] = HttpSettle(World(1), status, t).c
  /\ statsManager' = HttpSettle(World(1), status, t).sm

RecordedAsSuccess ==
  /\ statsManager'.httpStats.totalSuccessful =
       statsManager.httpStats.totalSuccessful + 1
  /\ statsManager'.httpStats.totalErrors = statsManager.httpStats.totalErrors
  /\ connections'[1].timers = 0

RecordedAsFailure ==
  /\ statsManager'.httpStats.totalErrors =
       statsManager.httpStats.totalErrors + 1
  /\ statsManager'.httpStats.totalSuccessful =
       statsManager.httpStats.totalSuccessful
  /\ connections'[1].timers = (IF connections[1].isClosing THEN 0 ELSE 1)

\* C20: an HTTP cycle whose response status is in 200..399 is recorded as a
\* success (opened event, no retry scheduled), and a cycle with any other
\* outcome as a failure (errored event, and a retry scheduled unless the
\* connection is closing).
C20_HttpOutcomeByStatus ==
  [][ \A status \in HttpOutcomes, t \in 1..MaxConnectTime :
        CompletesWith(status, t) =>
          IF status >= 200 /\ status < 400
            THEN RecordedAsSuccess ELSE RecordedAsFailure ]_vars

\* The average the StatsManager reports in its mode.
ReportedAverage(sm) ==
  IF sm.isHttpMode THEN sm.httpStats.averageResponseTime
                   ELSE sm.wsStats.averageConnectTime

\* C21: after each opened(latency) event the reported average latency is
\* the arithmetic mean of the samples of the bounded window, the most
\* recent min(n, 1000) observations.
C21_AverageIsWindowMean ==
  [][ apiCall' = "opened" =>
        /\ Len(statsManager'.connectTimes) <= WindowCap
        /\ SameFraction(ReportedAverage(statsManager'),
                        << SumSeq(statsManager'.connectTimes),
                           Len(statsManager'.connectTimes) >>) ]_vars

\* C29: the stored latency window never holds more than 1000 samples once
\* an opened() event has completed, and an opened() event on a full window
\* drops the oldest samples: the window afterwards is the tail of the old
\* window followed by the new sample.
C29_WindowBoundedFifo ==
  /\ [](Len(statsManager.connectTimes) <= WindowCap)
  /\ [][ apiCall' = "opened" =>
           \E t \in 1..MaxLatency :
             LET all == Append(statsManager.connectTimes, t)
                 new == statsManager'.connectTimes
                 dropped == Len(all) - Len(new)
             IN /\ Len(new) = (IF Len(all) <= WindowCap THEN Len(all)
                                                        ELSE WindowCap)
                /\ \A k \in 1..Len(new) : new[k] = all[k + dropped] ]_vars

\* C29 witness: the window was full of samples 1, 2, 2, ... and a sample 1
\* has been recorded: the oldest sample is gone, the newest is last.
C29_Witness ==
  /\ apiCall = "opened"
  /\ Opened(statsManager) = WindowCap + 1
  /\ Len(statsManager.connectTimes) = WindowCap
  /\ statsManager.connectTimes[1] = 2
  /\ statsManager.connectTimes[WindowCap] = 1

\* C22: when test data is loaded, every connection created is bound to a
\* popped row of its own: none runs without a row and no two share one.
C22_EveryConnectionHasOwnRow ==
  manager[Active].hasTestData =>
    /\ \A i \in DOMAIN connections : connections[i].testData # None
    /\ \A i, j \in DOMAIN connections :
         i # j => connections[i].testData # connections[j].testData

\* C23: when Redis is unreachable, or holds no count, or its list is empty,
\* loadTestData() answers false without failing, the manager plans
\* NUM_CONNECTIONS connections and creates that many, none of them bound to
\* a row, and popTestData() is never called.
C23_FallbackToStatic ==
  /\ [][ ( \/ CountReply /\ (~redis.up \/ redis.count = None)
           \/ LengthReply /\ redis.list = <<>> )
         => /\ init'.pc \notin {"get", "llen"}
            /\ ~manager'[Active].hasTestData ]_vars
  /\ []( (init.pc \notin {"get", "llen"} /\ ~manager[Active].hasTestData)
         => /\ manager[Active].calculatedNumConnections = config.numConnections
            /\ redisClient.pending = <<>>
            /\ Len(connections) <= config.numConnections
            /\ init.pc = "done" => Len(connections) = config.numConnections
            /\ \A i \in DOMAIN connections :
                 /\ connections[i].testData = None
                 /\ connections[i].url = TargetUrl(config) )
  /\ [][ ~manager'[Active].hasTestData
           => \/ redis'.list = redis.list
              \/ OtherReplicaPop ]_vars

\* C23 witness: a file of two rows was loaded and the other replica took
\* both before this one asked: two connections from NUM_CONNECTIONS = 2,
\* progressively, with no row.
C23_Witness ==
  /\ redis.up /\ redis.count = Some(<<"2">>) /\ Len(redis.taken) = 2
  /\ ~manager[Active].hasTestData
  /\ config.connectionMode = "progressive"
  /\ config.numConnections = 2 /\ config.replicas = 2
  /\ init.pc = "done"
  /\ Len(connections) = 2
  /\ connections[2].testData = None

\* C24: with TEST_MODE=http, HTTP_URL set, WS_URL unset and every other
\* required variable present and valid, parseEnv() returns the Config.
C24_HttpModeNeedsNoWsUrl ==
  [][ ( /\ ImportConfig
        /\ env.TEST_MODE = Some("http")
        /\ ~Falsy(env.HTTP_URL, <<>>)
        /\ env.WS_URL = None
        /\ \A v \in {env.INFLUX_URL, env.INFLUX_TOKEN, env.INFLUX_ORG,
                     env.INFLUX_BUCKET, env.REDIS_URL} : v # None
        /\ env.NUM_CONNECTIONS # Some(<<"0">>) )
      => startup' = "ok" ]_vars

\* C25: the manager's snapshot has active <= total, total is the number of
\* connections ever created (the k-th created is the k-th of the array and
\* carries id k), and the array only grows: no step removes or replaces a
\* connection, and a retry reuses its connection and adds none.
C25_SnapshotCountsCreated ==
  /\ [](LET snap == getConnectionStats(connections)
        IN /\ snap.active <= snap.total
           /\ snap.active >= 0
           /\ \A k \in DOMAIN connections : connections[k].id = k
           /\ snap.total = Cardinality({connections[k].id :
                                          k \in DOMAIN connections}))
  /\ [][ /\ Len(connections') >= Len(connections)
         /\ \A i \in DOMAIN connections :
              /\ connections'[i].id = connections[i].id
              /\ ReconnectTimerFires(i)
                   => Len(connections') = Len(connections) ]_vars

\* C25 witness: two connections were created, one has retried and one is
\* connected: the snapshot is total 2, active 1.
C25_Witness ==
  /\ ~manager[Active].isShuttingDown
  /\ getConnectionStats(connections) = [total |-> 2, active |-> 1]
  /\ Attempted(statsManager) = 3

\* The rows of a file whose level column, parsed as parseInt does, is an
\* integer at most dataLevel, in file order.
ClaimedRows(file, dataLevel) ==
  LET kept == {k \in DOMAIN file :
                 /\ ParseIntJs(file[k][KeyLevel]) # None
                 /\ Value(ParseIntJs(file[k][KeyLevel])) <= dataLevel}
      \* the j-th kept index
      Nth[j \in 1..Cardinality(kept)] ==
        CHOOSE k \in kept : Cardinality({m \in kept : m <= k}) = j
  IN [j \in 1..Cardinality(kept) |-> file[Nth[j]]]

\* C26: when loadCsvFile() has returned, the list holds exactly the rows of
\* the file whose level parses to an integer <= DATA_LEVEL, in file order,
\* whatever the list held before, and the count key is the number of rows
\* stored.
C26_LoaderStoresFilteredRows ==
  loader.pc = "done" =>
    /\ redis.list = ClaimedRows(loader.file, loader.dataLevel)
    /\ redis.count # None
    /\ ParseInt(Value(redis.count)) = Len(redis.list)

\* C26 witness: a file of two rows of which the second passes the filter
\* has replaced an older file of MaxRows rows.
C26_Witness ==
  /\ loader.pc = "done"
  /\ Len(loader.file) = 2
  /\ loader.file[1][KeyLevel] = <<"3">>
  /\ loader.file[2][KeyLevel] = <<"2">>
  /\ loader.dataLevel = 2
  /\ redis.list = <<loader.file[2]>>
  /\ redis.count = Some(<<"1">>)

\* C27: in instant mode with no shutdown requested, when initialize()
\* returns exactly calculatedNumConnections connections exist, carrying the
\* ids 1..calculatedNumConnections in creation order, and the manager has
\* called connect() once on each: every step of the creation makes one
\* attempt per connection it adds, on that connection, and touches no
\* connection created before.
C27_InstantCreatesTarget ==
  /\ []( (config.connectionMode = "instant" /\ init.pc = "done")
         => /\ Len(connections) = manager[Active].calculatedNumConnections
            /\ \A k \in DOMAIN connections :
                 /\ connections[k].id = k
                 /\ connections[k].target # None )
  /\ [][ ( /\ config.connectionMode = "instant"
           /\ CountReply \/ LengthReply \/ PopReply \/ PopLengthReply )
         => /\ Attempted(statsManager') - Attempted(statsManager)
                 = Len(connections') - Len(connections)
            /\ \A k \in DOMAIN connections : connections'[k] = connections[k]
            /\ \A k \in DOMAIN connections' \ DOMAIN connections :
                 connections'[k].target = Some(connections'[k].url) ]_vars

\* C27 witness: two rows, one replica: initialize() has returned with two
\* connections, each with its row.
C27_Witness ==
  /\ config.connectionMode = "instant" /\ init.pc = "done"
  /\ manager[Active].hasTestData
  /\ manager[Active].calculatedNumConnections = 2
  /\ Len(connections) = 2
  /\ connections[1].testData = Some(DataRow(1))
  /\ connections[2].testData = Some(DataRow(2))

\* C28: for an HTTP connection isConnected() is true exactly when the cycle
\* completed last ended with a 2xx status: a completing cycle leaves it
\* true when its status is 2xx and false otherwise, a cycle without a
\* response included; no other step changes it, it is false before the
\* first cycle completes, and a cycle is under way only while it is false.
C28_HttpConnectedIffLast2xx ==
  /\ [][ \A status \in HttpOutcomes, t \in 1..MaxConnectTime :
           CompletesWith(status, t)
             => (HttpIsConnected(connections'[1])
                   <=> (status >= 200 /\ status < 300)) ]_vars
  /\ [][ (IsHttp /\ ~HttpResponse(1))
           => (HttpIsConnected(connections'[1])
                 <=> HttpIsConnected(connections[1])) ]_vars
  /\ []( (IsHttp /\ ( \/ connections[1].req = "inflight"
                      \/ Attempted(statsManager) = 0 ))
         => ~HttpIsConnected(connections[1]) )

\* C28 witness: two cycles have completed, neither with a response.
C28_Witness ==
  /\ IsHttp
  /\ Attempted(statsManager) = 2
  /\ statsManager.httpStats.totalErrors = 2
  /\ connections[1].req = "none"
  /\ connections[1].lastResponseStatus = 0
  /\ ~HttpIsConnected(connections[1])

\* C30: close() cancels the periodic summary timer, and flushes before it
\* releases the sink; once close() has been called no periodic summary is
\* emitted any more.
C30_CloseStopsPeriodicSummary ==
  /\ [](statsManager.closeCalls >= 1 => ~statsManager.updateInterval)
  /\ [](statsManager.sinkCloses <= statsManager.finalFlushes)
  /\ [][ statsManager.closeCalls >= 1
           => statsManager'.summaries = statsManager.summaries ]_vars

\* C30 witness: the timer has fired twice, close() was called and is
\* through its flush and the release of the sink.
C30_Witness ==
  /\ statsManager.summaries = 2
  /\ statsManager.closeCalls = 1
  /\ statsManager.finalFlushes = 1
  /\ statsManager.sinkCloses = 1
  /\ ~statsManager.updateInterval

\* C32: the counters attempted, errors, totalClosed (WebSocket) and
\* totalSuccessful (HTTP) never decrease, whatever events are called in
\* whatever order.
C32_CountersNeverDecrease ==
  [][ /\ statsManager'.wsStats.totalAttempted
           >= statsManager.wsStats.totalAttempted
      /\ statsManager'.wsStats.totalErrors >= statsManager.wsStats.totalErrors
      /\ statsManager'.wsStats.totalClosed >= statsManager.wsStats.totalClosed
      /\ statsManager'.httpStats.totalAttempted
           >= statsManager.httpStats.totalAttempted
      /\ statsManager'.httpStats.totalErrors
           >= statsManager.httpStats.totalErrors
      /\ statsManager'.httpStats.totalSuccessful
           >= statsManager.httpStats.totalSuccessful ]_vars

\* C32 witness: a close was counted and an error was counted after it.
C32_Witness ==
  /\ apiCall = "errored"
  /\ statsManager.wsStats.totalClosed = 2
  /\ statsManager.wsStats.totalErrors = 1
  /\ statsManager.wsStats.totalAttempted = 1

\* The counters, windows and derived metrics of a StatsManager, with what
\* only tells about the sink left out.
WithoutSink(sm) == [sm EXCEPT !.sinkUp = TRUE, !.lastUpdateFailed = FALSE]

\* What one lifecycle event makes of a StatsManager.
AfterOneEvent(sm) ==
  {connectionAttempted(sm), connectionError(sm), connectionClosed(sm)}
    \cup {connectionOpened(sm, t) : t \in 1..MaxConnectTime}

\* What the events of one handler run (none, one or two) make of it.
AfterOneHandler(sm) ==
  {sm} \cup AfterOneEvent(sm) \cup UNION {AfterOneEvent(x) : x \in AfterOneEvent(sm)}

\* C31: whether the sink is up or down, the counters and derived metrics a
\* step leaves are those the same events leave with the sink up, the sink
\* going down or up changes none of them, every attempt is still counted,
\* and a failed attempt of a connection that is not closing still leaves
\* its retry pending.
C31_SinkFailureChangesNothing ==
  [][ /\ WithoutSink(statsManager') \in
           {WithoutSink(x) : x \in AfterOneHandler(WithoutSink(statsManager))}
      /\ SinkChanges => WithoutSink(statsManager') = WithoutSink(statsManager)
      /\ (OwnerConnect \/ ReconnectTimerFires(1))
           => Attempted(statsManager') = Attempted(statsManager) + 1
      /\ (FailureOf(1) /\ ~connections'[1].isClosing)
           => /\ connections'[1].timers = 1
              /\ connections'[1].reconnectTimer = "pending" ]_vars

\* C31 witness: with the sink down and the last summary write failed, the
\* second attempt was counted, failed, and its retry is pending.
C31_Witness ==
  /\ ~statsManager.sinkUp /\ statsManager.lastUpdateFailed
  /\ Attempted(statsManager) = 2
  /\ Errors(statsManager) >= 1
  /\ connections[1].timers = 1
  /\ ~connections[1].isClosing

\* C33: the request in flight carries data exactly when the method is POST,
\* PUT or PATCH and the connection has a row; the data is then that row, and
\* the row of a connection is the same at every attempt.
C33_BodyOnlyForMutatingMethodWithRow ==
  /\ [](connections[1].req = "inflight" =>
          LET c == connections[1]
              mutating == ToUpperCase(config.httpMethod) \in {"POST", "PUT", "PATCH"}
          IN /\ (c.data # None) <=> (mutating /\ c.testData # None)
             /\ c.data # None => c.data = c.testData)
  /\ [][connections'[1].testData = connections[1].testData]_vars

\* C33 witness: the third request of a PUT connection with a row is in
\* flight with the row as its data.
C33_Witness ==
  /\ config.httpMethod = "put"
  /\ Attempted(statsManager) = 3
  /\ connections[1].req = "inflight"
  /\ connections[1].data = Some(TestRow)

\* C34: in progressive mode the interval is eventually cleared for good and
\* initialize() eventually returns.
C34_TickerCancelledAndInitializeReturns ==
  config.connectionMode = "progressive"
    => /\ <>[](~manager[Active].progressiveConnectionTimer)
       /\ <>(init.pc = "done")

\* The sockets of connection c that have emitted 'open' and not yet 'close'.
OpenTransports(c) == {k \in DOMAIN c.socks : c.opened[k]}

RECURSIVE SumOpenTransports(_, _)
SumOpenTransports(conns, i) ==
  IF i > Len(conns) THEN 0
  ELSE Cardinality(OpenTransports(conns[i])) + SumOpenTransports(conns, i + 1)

\* C35: in WebSocket mode currentOpen is the number of sockets, over all
\* connections, that have emitted 'open' and not yet 'close'.
C35_CurrentOpenIsOpenTransports ==
  ~IsHttp => statsManager.wsStats.currentOpen = SumOpenTransports(connections, 1)

\* A socket the connection has neither terminated nor seen close.
Live(sock) == sock \in {"connecting", "open", "failing"}

LiveTransports(c) == {k \in DOMAIN c.socks : Live(c.socks[k])}

\* C36: a WebSocket connection never has two live sockets, and never a live
\* socket while a retry timer of its own is pending.
C36_OneAttemptAtATime ==
  \A i \in DOMAIN connections :
    ~IsHttp =>
      /\ Cardinality(LiveTransports(connections[i])) <= 1
      /\ ~(LiveTransports(connections[i]) # {} /\ connections[i].timers > 0)

\* C36 witness: after a failed attempt the retry's socket is open, alone,
\* with no timer pending.
C36_Witness ==
  /\ ~IsHttp
  /\ Attempted(statsManager) = 2
  /\ connections[1].socks = <<"open">>
  /\ connections[1].timers = 0

\* The connections whose request is in flight.
InFlight == {i \in DOMAIN connections : connections[i].req = "inflight"}

\* C37: in HTTP mode the successes and errors counted are the attempts
\* less the requests in flight, so they never exceed the attempts and equal
\* them when nothing is in flight; a settling request counts exactly one of
\* the two, and its close follows in the same step.
C37_HttpOutcomePerAttempt ==
  /\ [](IsHttp =>
          /\ statsManager.httpStats.totalSuccessful + statsManager.httpStats.totalErrors
               + Cardinality(InFlight) = statsManager.httpStats.totalAttempted
          /\ statsManager.closePoints =
               statsManager.httpStats.totalSuccessful + statsManager.httpStats.totalErrors)
  /\ [][ \A i \in DOMAIN connections :
           HttpResponse(i) =>
             /\ statsManager'.httpStats.totalSuccessful + statsManager'.httpStats.totalErrors
                  = statsManager.httpStats.totalSuccessful
                      + statsManager.httpStats.totalErrors + 1
             /\ statsManager'.httpStats.totalAttempted
                  = statsManager.httpStats.totalAttempted ]_vars

\* C37 witness: three attempts of two connections have all settled, some
\* as success and some as error, and nothing is in flight.
C37_Witness ==
  /\ IsHttp /\ Len(connections) = 2 /\ InFlight = {}
  /\ statsManager.httpStats.totalAttempted = 3
  /\ statsManager.httpStats.totalSuccessful >= 1
  /\ statsManager.httpStats.totalErrors >= 1

\* C38: the ids of the connections of the manager are pairwise distinct.
C38_IdsPairwiseDistinct ==
  \A i, j \in DOMAIN connections :
    i # j => connections[i].id # connections[j].id

\* C38 witness: in progressive mode with test data, ticks that were
\* awaiting their pops at the same time have created three connections
\* where two were to be created.
C38_Witness ==
  /\ config.connectionMode = "progressive"
  /\ manager[Active].hasTestData
  /\ manager[Active].calculatedNumConnections <= 2
  /\ Len(connections) = 3

\* C39: while one signal at most has arrived, close() of the StatsManager
\* and close() of the Redis client have each been called once at most by
\* the two managers together.
C39_SharedClosedOncePerSignal ==
  proc.signals <= 1 =>
    /\ statsManager.closeCalls <= 1
    /\ manager["ws"].redisCloses + manager["http"].redisCloses <= 1

====
